---- MODULE Spec2Model ----
(***************************************************************************)
(* Signaling server of the video-chat application (server/index.js, the    *)
(* current revision, lines 186-403): the room registry `rooms` and the     *)
(* per-connection socket.io event handlers that relay signaling messages.  *)
(*                                                                         *)
(* socket.io semantics used by the handlers:                               *)
(*   - every socket is, from its connection on, a member of the adapter    *)
(*     room named by its own id;                                           *)
(*   - socket.join(r) adds the socket to adapter room r and leaves the     *)
(*     rooms it is already in untouched;                                   *)
(*   - socket.to(r).emit(...) delivers to every socket in adapter room r   *)
(*     except the emitting socket; socket.emit(...) delivers to the socket *)
(*     itself;                                                             *)
(*   - when 'disconnect' fires the socket has already left all its rooms.  *)
(*                                                                         *)
(* Spec is the server alone, driven by arbitrary client events.            *)
(* SessionSpec composes the same handlers with the clients of              *)
(* src/contexts/VideoContext.tsx (current revision, lines 236-865): every  *)
(* event the server handles was emitted by a client, and every emission is *)
(* queued, in order, for the sockets it is addressed to.                   *)
(*                                                                         *)
(* MediaSpec, LinkSpec, ChatSpec and ReconnectSpec are calls of two        *)
(* clients over the same server handlers (CallBase), each with one more    *)
(* part of the client: capture streams and source switches, ICE candidates *)
(* and connection failures, the chat transcript, and the loss of the       *)
(* transport with socket.io's automatic reconnection.  ReconnectFairSpec   *)
(* adds that what is in flight is eventually handled.                      *)
(* ToggleSpec is such a call with the microphone and camera switches of    *)
(* the control bar, and HandshakeSpec one in which the clients only join   *)
(* and negotiate, with the signaling steps weakly fair.                    *)
(***************************************************************************)
EXTENDS Integers, Sequences, FiniteSets, Bags, TLC

\* ---------------------------------------------------------------- bounds
\* number of transport connections the model opens
NumSockets == 3
\* events the server dispatches in one run
MaxEvents == 6

SocketNames == <<"s1", "s2", "s3", "s4", "s5">>
\* socket.id values; ids are handed out in order, never reused
Sockets == {SocketNames[i] : i \in 1..NumSockets}

\* room identifiers a client may put in a payload; "" is the falsy roomId
RoomNames == {"r1", "r2"}
RoomIds == RoomNames \cup {""}
\* `target` values of offer/answer/ice-candidate
Targets == Sockets \cup RoomNames
\* opaque offer/answer/candidate payloads
Payloads == {"p1", "p2"}
\* the display name a connection announces
UserNames == <<"u1", "u2", "u3", "u4", "u5">>
UserNameOf(s) == UserNames[CHOOSE i \in 1..NumSockets : SocketNames[i] = s]
\* the texts a user types into the chat
ChatTexts == {"hi", "yo"}
\* sendChatMessage(message): the ChatMessage object the client builds and emits
\* (id: Date.now().toString(), timestamp: new Date(), both one clock reading)
ClientChatMessage(message) ==
    [id |-> "t1", senderId |-> "current-user", senderName |-> "You",
     message |-> message, timestamp |-> "t1"]
ChatMessages == {ClientChatMessage(m) : m \in ChatTexts}

\* value of a property that was never assigned
Undefined == "undefined"
\* null
None == "none"

VARIABLES
    connected,   \* sockets whose connection is open
    closed,      \* sockets that have disconnected
    sockUserName,\* socket.userName
    sockRoomId,  \* socket.roomId
    adapter,     \* socket.io adapter: the rooms each socket is a member of
    rooms,       \* the registry: roomId -> (socket.id -> participant record)
    eventCount,  \* events dispatched so far
    joined,      \* history: the room of the socket's latest join-room, None after leave-room / disconnect
    handled,     \* the event the server handled last
    emitted,     \* the messages that handler emitted, in emission order
    \* ---- one client per socket (VideoProvider)
    mediaInitialized, \* Room.tsx mediaInitialized.current: the room page has joined
    cRoomId,          \* state.roomId
    cParticipants,    \* state.participants
    isScreenSharing,  \* state.isScreenSharing
    localStreamRef,   \* localStreamRef.current: None, "camera" or "screen"
    pcHeap,           \* the RTCPeerConnection objects the client has created
    peerConnections,  \* peerConnections.current: participant id -> object (index in pcHeap)
    tasks,            \* suspended async continuations (awaits in flight), a bag
    outbox,           \* events emitted by the client, not yet handled by the server
    inbox,            \* events emitted by the server, not yet handled by the client
    actionCount,      \* user actions and platform events so far (see UserAction)
    liveTracks,       \* the capture streams whose tracks are live, a bag of their sources
    cChatMessages,    \* state.chatMessages
    alerts,           \* alert() calls so far
    mediaRequests,    \* the getUserMedia requests of the latest initializeMedia call
    attempts,         \* reconnection attempts of the socket's manager since the transport was lost
    reconnecting,     \* the sockets whose transport is lost and whose manager is reconnecting
    isAudioEnabled,   \* state.isAudioEnabled
    isVideoEnabled,   \* state.isVideoEnabled
    trackEnabled      \* the enabled flags of the audio and video tracks of state.localStream

serverVars == <<connected, closed, sockUserName, sockRoomId, adapter, rooms, joined,
                handled, emitted>>
mediaVars == <<liveTracks, cChatMessages, alerts, mediaRequests, attempts, reconnecting>>
toggleVars == <<isAudioEnabled, isVideoEnabled, trackEnabled>>
clientVars == <<mediaInitialized, cRoomId, cParticipants, isScreenSharing, localStreamRef,
                pcHeap, peerConnections, tasks, outbox, inbox, actionCount, mediaVars,
                toggleVars>>
vars == <<serverVars, eventCount, clientVars>>


\* the tracks of a stream as getUserMedia / getDisplayMedia hands it over
NewTracks == [audio |-> TRUE, video |-> TRUE]

\* ---------------------------------------------------------------- Map helpers
EmptyMap == [k \in {} |-> k]
MapHas(m, k) == k \in DOMAIN m
MapSet(m, k, v) == [x \in (DOMAIN m) \cup {k} |-> IF x = k THEN v ELSE m[x]]
MapDelete(m, k) == [x \in (DOMAIN m) \ {k} |-> m[x]]
MapSize(m) == Cardinality(DOMAIN m)
MapValues(m) == {m[k] : k \in DOMAIN m}

\* JavaScript truthiness of a roomId string
Truthy(r) == r # "" /\ r # Undefined

\* ---------------------------------------------------------------- emission
\* socket.to(room): every connected socket in adapter room `room` but the sender
ToRoom(s, room, adp, conn) == {x \in conn : room \in adp[x]} \ {s}
Emission(ev, to, data) == [ev |-> ev, to |-> to, data |-> data]

Participant(id, name) ==
    [id |-> id, name |-> name, audioEnabled |-> TRUE, videoEnabled |-> TRUE]

\* ---------------------------------------------------------------- Init
Init ==
    /\ connected = {}
    /\ closed = {}
    /\ sockUserName = [s \in Sockets |-> Undefined]
    /\ sockRoomId = [s \in Sockets |-> Undefined]
    /\ adapter = [s \in Sockets |-> {}]
    /\ rooms = EmptyMap
    /\ eventCount = 0
    /\ joined = [s \in Sockets |-> None]
    /\ handled = [type |-> "init"]
    /\ emitted = << >>
    /\ mediaInitialized = [s \in Sockets |-> FALSE]
    /\ cRoomId = [s \in Sockets |-> None]
    /\ cParticipants = [s \in Sockets |-> << >>]
    /\ isScreenSharing = [s \in Sockets |-> FALSE]
    /\ localStreamRef = [s \in Sockets |-> None]
    /\ pcHeap = [s \in Sockets |-> << >>]
    /\ peerConnections = [s \in Sockets |-> EmptyMap]
    /\ tasks = [s \in Sockets |-> EmptyBag]
    /\ outbox = [s \in Sockets |-> << >>]
    /\ inbox = [s \in Sockets |-> << >>]
    /\ actionCount = 0
    /\ liveTracks = [s \in Sockets |-> EmptyBag]
    /\ cChatMessages = [s \in Sockets |-> << >>]
    /\ alerts = [s \in Sockets |-> 0]
    /\ mediaRequests = [s \in Sockets |-> << >>]
    /\ attempts = [s \in Sockets |-> 0]
    /\ reconnecting = {}
    /\ isAudioEnabled = [s \in Sockets |-> TRUE]
    /\ isVideoEnabled = [s \in Sockets |-> TRUE]
    /\ trackEnabled = [s \in Sockets |-> NewTracks]

\* io.on('connection'): a new socket, member of the adapter room of its own id
Connection(s) ==
    /\ s \notin connected \cup closed
    /\ \A i \in 1..NumSockets : SocketNames[i] = s =>
            \A j \in 1..(i-1) : SocketNames[j] \in connected \cup closed
    /\ connected' = connected \cup {s}
    /\ adapter' = [adapter EXCEPT ![s] = {s}]
    /\ handled' = [type |-> "connection", socket |-> s]
    /\ emitted' = << >>
    /\ UNCHANGED <<closed, sockUserName, sockRoomId, rooms, joined>>

\* mutant: the list is built without filtering the joiner out
ExistingParticipants_Unfiltered(room, s) == MapValues(room)

\* the list sent as existing-participants (modelled as the set of its elements)
ExistingParticipants(room, s) == {p \in MapValues(room) : p.id # s}

\* mutant: the broadcast is emitted first, as in the earlier revision
JoinEmissions_BroadcastFirst(s, roomId, userName, room, adp) ==
    << Emission("user-joined", ToRoom(s, roomId, adp, connected), Participant(s, userName)),
       Emission("existing-participants", {s}, {p \in MapValues(room) : p.id # s}) >>

\* the emissions of the join-room handler, in order
JoinEmissions(s, roomId, userName, room, adp) ==
    (IF Cardinality(ExistingParticipants(room, s)) > 0
        THEN << Emission("existing-participants", {s}, ExistingParticipants(room, s)) >>
        ELSE << >>)
    \o << Emission("user-joined", ToRoom(s, roomId, adp, connected), Participant(s, userName)) >>

\* the registry after join-room
JoinRegistry(s, roomId, userName) ==
    LET rs == IF MapHas(rooms, roomId) THEN rooms ELSE MapSet(rooms, roomId, EmptyMap)
    IN  MapSet(rs, roomId, MapSet(rs[roomId], s, Participant(s, userName)))

\* socket.on('join-room', ({ roomId, userName }) => ...)
JoinRoom(s, roomId, userName) ==
    /\ s \in connected
    /\ adapter' = [adapter EXCEPT ![s] = @ \cup {roomId}]
    /\ sockUserName' = [sockUserName EXCEPT ![s] = userName]
    /\ sockRoomId' = [sockRoomId EXCEPT ![s] = roomId]
    /\ rooms' = JoinRegistry(s, roomId, userName)
    /\ emitted' = JoinEmissions(s, roomId, userName, rooms'[roomId], adapter')
    /\ joined' = [joined EXCEPT ![s] = roomId]
    /\ handled' = [type |-> "join-room", socket |-> s, roomId |-> roomId, userName |-> userName]
    /\ UNCHANGED <<connected, closed>>

\* socket.on('offer', ({ target, offer }) => ...)
Offer(s, target, offer) ==
    /\ s \in connected
    /\ emitted' = << Emission("offer", ToRoom(s, target, adapter, connected),
                              [sender |-> s, offer |-> offer]) >>
    /\ handled' = [type |-> "offer", socket |-> s, target |-> target, payload |-> offer]
    /\ UNCHANGED <<connected, closed, sockUserName, sockRoomId, adapter, rooms, joined>>

\* socket.on('answer', ({ target, answer }) => ...)
Answer(s, target, answer) ==
    /\ s \in connected
    /\ emitted' = << Emission("answer", ToRoom(s, target, adapter, connected),
                              [sender |-> s, answer |-> answer]) >>
    /\ handled' = [type |-> "answer", socket |-> s, target |-> target, payload |-> answer]
    /\ UNCHANGED <<connected, closed, sockUserName, sockRoomId, adapter, rooms, joined>>

\* socket.on('ice-candidate', ({ target, candidate }) => ...)
IceCandidate(s, target, candidate) ==
    /\ s \in connected
    /\ emitted' = << Emission("ice-candidate", ToRoom(s, target, adapter, connected),
                              [sender |-> s, candidate |-> candidate]) >>
    /\ handled' = [type |-> "ice-candidate", socket |-> s, target |-> target,
                   payload |-> candidate]
    /\ UNCHANGED <<connected, closed, sockUserName, sockRoomId, adapter, rooms, joined>>

\* mutant: the flag is written to every record of the room
SetAudio_WholeRoom(s, roomId, audioEnabled) ==
    MapSet(rooms, roomId,
           [p \in DOMAIN rooms[roomId] |->
               [rooms[roomId][p] EXCEPT !.audioEnabled = audioEnabled]])

\* the registry after participant.audioEnabled = audioEnabled on the sender's record
SetAudio(s, roomId, audioEnabled) ==
    MapSet(rooms, roomId,
           MapSet(rooms[roomId], s, [rooms[roomId][s] EXCEPT !.audioEnabled = audioEnabled]))

\* mutant: the new value is broadcast but not stored
SetVideo_NotStored(s, roomId, videoEnabled) == rooms

\* the registry after participant.videoEnabled = videoEnabled on the sender's record
SetVideo(s, roomId, videoEnabled) ==
    MapSet(rooms, roomId,
           MapSet(rooms[roomId], s, [rooms[roomId][s] EXCEPT !.videoEnabled = videoEnabled]))

\* socket.on('toggle-audio', ({ roomId, audioEnabled }) => ...)
ToggleAudio(s, roomId, audioEnabled) ==
    /\ s \in connected
    /\ IF MapHas(rooms, roomId) /\ MapHas(rooms[roomId], s)
          THEN /\ rooms' = SetAudio(s, roomId, audioEnabled)
               /\ emitted' = << Emission("participant-audio-toggle",
                                         ToRoom(s, roomId, adapter, connected),
                                         [participantId |-> s, audioEnabled |-> audioEnabled]) >>
          ELSE /\ rooms' = rooms
               /\ emitted' = << >>
    /\ handled' = [type |-> "toggle-audio", socket |-> s, roomId |-> roomId,
                   enabled |-> audioEnabled]
    /\ UNCHANGED <<connected, closed, sockUserName, sockRoomId, adapter, joined>>

\* socket.on('toggle-video', ({ roomId, videoEnabled }) => ...)
ToggleVideo(s, roomId, videoEnabled) ==
    /\ s \in connected
    /\ IF MapHas(rooms, roomId) /\ MapHas(rooms[roomId], s)
          THEN /\ rooms' = SetVideo(s, roomId, videoEnabled)
               /\ emitted' = << Emission("participant-video-toggle",
                                         ToRoom(s, roomId, adapter, connected),
                                         [participantId |-> s, videoEnabled |-> videoEnabled]) >>
          ELSE /\ rooms' = rooms
               /\ emitted' = << >>
    /\ handled' = [type |-> "toggle-video", socket |-> s, roomId |-> roomId,
                   enabled |-> videoEnabled]
    /\ UNCHANGED <<connected, closed, sockUserName, sockRoomId, adapter, joined>>

\* mutant: the message is emitted to the whole room, the sender included
ChatMessage_Echo(s, roomId, message) ==
    /\ s \in connected
    /\ emitted' = << Emission("chat-message", {x \in connected : roomId \in adapter[x]},
                              message) >>
    /\ handled' = [type |-> "chat-message", socket |-> s, roomId |-> roomId,
                   message |-> message]
    /\ UNCHANGED <<connected, closed, sockUserName, sockRoomId, adapter, rooms, joined>>

\* socket.on('chat-message', ({ roomId, message }) => ...)
ChatMessage(s, roomId, message) ==
    /\ s \in connected
    /\ emitted' = << Emission("chat-message", ToRoom(s, roomId, adapter, connected), message) >>
    /\ handled' = [type |-> "chat-message", socket |-> s, roomId |-> roomId,
                   message |-> message]
    /\ UNCHANGED <<connected, closed, sockUserName, sockRoomId, adapter, rooms, joined>>

\* the guard shared by the disconnect and leave-room handlers
InRegisteredRoom(s) == Truthy(sockRoomId[s]) /\ MapHas(rooms, sockRoomId[s])

\* mutant: the empty room is not deleted
LeaveRegistry_KeepEmpty(s) ==
    MapSet(rooms, sockRoomId[s], MapDelete(rooms[sockRoomId[s]], s))

\* room.delete(socket.id), then rooms.delete(socket.roomId) if the room is empty
LeaveRegistry(s) ==
    LET room == MapDelete(rooms[sockRoomId[s]], s)
    IN  IF MapSize(room) = 0
           THEN MapDelete(rooms, sockRoomId[s])
           ELSE MapSet(rooms, sockRoomId[s], room)

\* socket.on('disconnect', (reason) => ...); socket.io has emptied the socket's rooms
Disconnect(s) ==
    /\ s \in connected
    /\ connected' = connected \ {s}
    /\ closed' = closed \cup {s}
    /\ adapter' = [adapter EXCEPT ![s] = {}]
    /\ IF InRegisteredRoom(s)
          THEN /\ rooms' = LeaveRegistry(s)
               /\ emitted' = << Emission("user-left",
                                         ToRoom(s, sockRoomId[s], adapter', connected'), s) >>
          ELSE /\ rooms' = rooms
               /\ emitted' = << >>
    /\ joined' = [joined EXCEPT ![s] = None]
    /\ handled' = [type |-> "disconnect", socket |-> s]
    /\ UNCHANGED <<sockUserName, sockRoomId>>

\* socket.on('leave-room', () => ...)
LeaveRoom(s) ==
    /\ s \in connected
    /\ IF InRegisteredRoom(s)
          THEN /\ rooms' = LeaveRegistry(s)
               /\ emitted' = << Emission("user-left",
                                         ToRoom(s, sockRoomId[s], adapter, connected), s) >>
               /\ adapter' = [adapter EXCEPT ![s] = @ \ {sockRoomId[s]}]
          ELSE /\ rooms' = rooms
               /\ emitted' = << >>
               /\ adapter' = adapter
    /\ joined' = [joined EXCEPT ![s] = None]
    /\ handled' = [type |-> "leave-room", socket |-> s]
    /\ UNCHANGED <<connected, closed, sockUserName, sockRoomId>>

\* one event is dispatched: its handler runs to completion
Dispatch(handler) ==
    /\ eventCount < MaxEvents
    /\ eventCount' = eventCount + 1
    /\ handler
    /\ UNCHANGED clientVars

Next ==
    \/ \E s \in Sockets : Dispatch(Connection(s))
    \/ \E s \in Sockets, r \in RoomIds : Dispatch(JoinRoom(s, r, UserNameOf(s)))
    \/ \E s \in Sockets, t \in Targets, p \in Payloads : Dispatch(Offer(s, t, p))
    \/ \E s \in Sockets, t \in Targets, p \in Payloads : Dispatch(Answer(s, t, p))
    \/ \E s \in Sockets, t \in Targets, p \in Payloads : Dispatch(IceCandidate(s, t, p))
    \/ \E s \in Sockets, r \in RoomIds, b \in BOOLEAN : Dispatch(ToggleAudio(s, r, b))
    \/ \E s \in Sockets, r \in RoomIds, b \in BOOLEAN : Dispatch(ToggleVideo(s, r, b))
    \/ \E s \in Sockets, r \in RoomIds, m \in ChatMessages : Dispatch(ChatMessage(s, r, m))
    \/ \E s \in Sockets : Dispatch(Disconnect(s))
    \/ \E s \in Sockets : Dispatch(LeaveRoom(s))

Spec == Init /\ [][Next]_vars

\* ================================================================ client
\* (src/contexts/VideoContext.tsx, current revision)

\* shareScreen calls, leaveRoom calls and transport losses in one run, all clients together
MaxActions == 1
\* connections and client events the server handles in one session
MaxSessionEvents == 7
\* the room the room pages of the session open
SessionRooms == {"r1"}
\* the session description a client puts in an offer or an answer
Sdp == "p1"

\* ---- RTCPeerConnection, as far as the handlers use it
\* new RTCPeerConnection(rtcConfig), then addTrack of the tracks of `stream`
\* (shouldCreateOffer: the argument of the createPeerConnection call that made it;
\*  hasLocal / hasRemote: localDescription / remoteDescription is set;
\*  tracks: the source of the tracks its senders carry, None when they carry none;
\*  tracksReplaced: the tracks were replaced by those of another source and no
\*  offer was made since;
\*  gathered: local candidates handed to onicecandidate;
\*  candidates / lost: remote candidates addIceCandidate accepted / rejected;
\*  failures / restarts: times connectionState became 'failed' / restartIce() calls)
NewPeerConnection(participantId, shouldCreateOffer, stream) ==
    [remote |-> participantId, signalingState |-> "stable",
     shouldCreateOffer |-> shouldCreateOffer, hasRemote |-> FALSE,
     hasLocal |-> FALSE, tracks |-> stream, tracksReplaced |-> FALSE, gathered |-> 0, candidates |-> 0, lost |-> 0,
     connectionState |-> "new", failures |-> 0, restarts |-> 0]
\* peerConnection.close()
ClosePc(pc) == [pc EXCEPT !.signalingState = "closed", !.connectionState = "closed"]
\* setLocalDescription(offer) resolves in these states and rejects in the others
CanSetLocalOffer(pc) == pc.signalingState \in {"stable", "have-local-offer"}
SetLocalOffer(pc) ==
    [pc EXCEPT !.signalingState = "have-local-offer", !.hasLocal = TRUE,
               !.tracksReplaced = FALSE]
\* setRemoteDescription(offer): resolves from stable / have-remote-offer; from
\* have-local-offer it resolves on a browser that rolls the local offer back
\* and rejects on one that does not
CanSetRemoteOffer(pc, rollback) ==
    \/ pc.signalingState \in {"stable", "have-remote-offer"}
    \/ pc.signalingState = "have-local-offer" /\ rollback
SetRemoteOffer(pc) == [pc EXCEPT !.signalingState = "have-remote-offer", !.hasRemote = TRUE]
\* createAnswer / setLocalDescription(answer) need a pending remote offer
CanSetLocalAnswer(pc) == pc.signalingState = "have-remote-offer"
SetLocalAnswer(pc) == [pc EXCEPT !.signalingState = "stable", !.hasLocal = TRUE]
\* mutant: an answer is applied whatever the signaling state
CanSetRemoteAnswer_Always(pc) == TRUE
\* setRemoteDescription(answer) needs a pending local offer
CanSetRemoteAnswer(pc) == pc.signalingState = "have-local-offer"
\* mutant: the answer is dropped
SetRemoteAnswer_Dropped(pc) == pc
SetRemoteAnswer(pc) == [pc EXCEPT !.signalingState = "stable", !.hasRemote = TRUE]

\* ---- suspended continuations
\* createAndSendOffer awaiting createOffer / setLocalDescription on object pc;
\* rest: the participants the existing-participants loop has still to visit
OfferTask(pc, target, rest) == [kind |-> "offer", pc |-> pc, target |-> target, rest |-> rest]
\* handleOffer awaiting createAnswer / setLocalDescription
AnswerTask(pc, target) == [kind |-> "answer", pc |-> pc, target |-> target, rest |-> {}]
\* `caller` ("stop" for shareScreen, "ended" for the onended handler of a screen
\* track) awaiting initializeMedia(), which awaits getUserMedia;
\* sharing: state.isScreenSharing when the caller was invoked
MediaTask(caller, sharing) == [kind |-> "media", caller |-> caller, sharing |-> sharing]
\* a continuation is suspended / resumes
Suspend(bag, t) == bag (+) SetToBag({t})
Resume(bag, t) == bag (-) SetToBag({t})

\* reducer cases ADD_PARTICIPANT and REMOVE_PARTICIPANT
AddParticipant(ps, p) == Append(ps, p)
\* mutant: REMOVE_PARTICIPANT leaves the list as it is
RemoveParticipant_Keep(ps, id) == ps
RemoveParticipant(ps, id) == SelectSeq(ps, LAMBDA p : p.id # id)

\* the platform's answers to the getUserMedia requests of one initializeMedia call
MediaAnswers == [preferred : BOOLEAN, fallback : BOOLEAN]
\* the answers of a platform that grants the camera at once
Granted == [preferred |-> TRUE, fallback |-> TRUE]
\* the getUserMedia requests initializeMedia issues, each with its outcome
MediaRequests_Both(answers) ==
    <<[constraints |-> "preferred", ok |-> answers.preferred],
      [constraints |-> "fallback", ok |-> answers.fallback]>>

MediaRequests(answers) ==
    IF answers.preferred
       THEN <<[constraints |-> "preferred", ok |-> TRUE]>>
       ELSE <<[constraints |-> "preferred", ok |-> FALSE],
              [constraints |-> "fallback", ok |-> answers.fallback]>>
\* whether one of them resolved with a stream
MediaGranted(answers) == \E i \in DOMAIN MediaRequests(answers) : MediaRequests(answers)[i].ok
\* a capture stream of the given source is acquired / its tracks stop
Acquire(bag, source) == bag (+) SetToBag({source})
Release(bag, source) == bag (-) SetToBag({source})

\* initializeMedia(), from the resolution of its getUserMedia requests on
initializeMedia(c, answers) ==
    /\ mediaRequests' = [mediaRequests EXCEPT ![c] = MediaRequests(answers)]
    /\ IF MediaGranted(answers)
          THEN /\ localStreamRef' = [localStreamRef EXCEPT ![c] = "camera"]
               /\ liveTracks' = [liveTracks EXCEPT ![c] = Acquire(@, "camera")]
               /\ trackEnabled' = [trackEnabled EXCEPT ![c] = NewTracks]
               /\ alerts' = alerts
          ELSE /\ alerts' = [alerts EXCEPT ![c] = @ + 1]
               /\ UNCHANGED <<localStreamRef, liveTracks, trackEnabled>>

\* Room.tsx initRoom, once per mount: await initializeMedia(); joinRoom(roomId, user.name)
joinRoom(c, roomId, answers) ==
    /\ ~mediaInitialized[c]
    /\ c \notin closed
    /\ mediaInitialized' = [mediaInitialized EXCEPT ![c] = TRUE]
    /\ initializeMedia(c, answers)
    /\ outbox' = [outbox EXCEPT ![c] = Append(@, [type |-> "join-room", roomId |-> roomId,
                                                  userName |-> UserNameOf(c)])]
    /\ cRoomId' = [cRoomId EXCEPT ![c] = roomId]
    /\ UNCHANGED <<serverVars, eventCount, cChatMessages, attempts, reconnecting,
                   cParticipants, isScreenSharing, pcHeap, peerConnections, tasks, inbox,
                   actionCount, isAudioEnabled, isVideoEnabled>>

\* createPeerConnection(participantId, shouldCreateOffer) up to its first await:
\* the heap and the map after `new RTCPeerConnection` and peerConnections.set
HeapAfterCreate(c, participantId, shouldCreateOffer) ==
    Append(pcHeap[c], NewPeerConnection(participantId, shouldCreateOffer, localStreamRef[c]))
MapAfterCreate(c, participantId) ==
    MapSet(peerConnections[c], participantId, Len(pcHeap[c]) + 1)

\* socket.on('existing-participants'): the loop runs up to its first await.
\* The list arrives as the set of its elements, so the loop may visit it in any
\* order; the order of the code (the registry's insertion order) is one of them.
ReceiveExistingParticipants(c) ==
    /\ c \in connected
    /\ inbox[c] # << >>
    /\ Head(inbox[c]).ev = "existing-participants"
    /\ inbox' = [inbox EXCEPT ![c] = Tail(@)]
    /\ LET list == Head(inbox[c]).data
       IN  IF list = {}
              THEN UNCHANGED <<cParticipants, pcHeap, peerConnections, tasks>>
              ELSE \E p \in list :
                     /\ cParticipants' = [cParticipants EXCEPT ![c] = AddParticipant(@, p)]
                     /\ pcHeap' = [pcHeap EXCEPT ![c] = HeapAfterCreate(c, p.id, TRUE)]
                     /\ peerConnections' = [peerConnections EXCEPT ![c] = MapAfterCreate(c, p.id)]
                     /\ tasks' = [tasks EXCEPT ![c] =
                                    Suspend(@, OfferTask(Len(pcHeap[c]) + 1, p.id, list \ {p}))]
    /\ UNCHANGED <<serverVars, eventCount, mediaVars, toggleVars, mediaInitialized, cRoomId, isScreenSharing,
                   localStreamRef, outbox, actionCount>>

\* mutant: the member that is told of a newcomer originates too, as in the
\* earliest revision
ReceiveUserJoined_Originates(c) ==
    /\ c \in connected
    /\ inbox[c] # << >>
    /\ Head(inbox[c]).ev = "user-joined"
    /\ inbox' = [inbox EXCEPT ![c] = Tail(@)]
    /\ LET p == Head(inbox[c]).data
       IN  /\ cParticipants' = [cParticipants EXCEPT ![c] = AddParticipant(@, p)]
           /\ pcHeap' = [pcHeap EXCEPT ![c] = HeapAfterCreate(c, p.id, TRUE)]
           /\ peerConnections' = [peerConnections EXCEPT ![c] = MapAfterCreate(c, p.id)]
           /\ tasks' = [tasks EXCEPT ![c] = Suspend(@, OfferTask(Len(pcHeap[c]) + 1, p.id, {}))]
    /\ UNCHANGED <<serverVars, eventCount, mediaVars, toggleVars, mediaInitialized, cRoomId, isScreenSharing,
                   localStreamRef, outbox, actionCount>>

\* socket.on('user-joined')
ReceiveUserJoined(c) ==
    /\ c \in connected
    /\ inbox[c] # << >>
    /\ Head(inbox[c]).ev = "user-joined"
    /\ inbox' = [inbox EXCEPT ![c] = Tail(@)]
    /\ LET p == Head(inbox[c]).data
       IN  /\ cParticipants' = [cParticipants EXCEPT ![c] = AddParticipant(@, p)]
           /\ pcHeap' = [pcHeap EXCEPT ![c] = HeapAfterCreate(c, p.id, FALSE)]
           /\ peerConnections' = [peerConnections EXCEPT ![c] = MapAfterCreate(c, p.id)]
    /\ UNCHANGED <<serverVars, eventCount, mediaVars, toggleVars, mediaInitialized, cRoomId, isScreenSharing,
                   localStreamRef, tasks, outbox, actionCount>>

\* mutant: the participant is dropped from the list but its link is kept
ReceiveUserLeft_KeepLink(c) ==
    /\ c \in connected
    /\ inbox[c] # << >>
    /\ Head(inbox[c]).ev = "user-left"
    /\ inbox' = [inbox EXCEPT ![c] = Tail(@)]
    /\ cParticipants' = [cParticipants EXCEPT ![c] = RemoveParticipant(@, Head(inbox[c]).data)]
    /\ UNCHANGED <<serverVars, eventCount, mediaVars, toggleVars, mediaInitialized, cRoomId, isScreenSharing,
                   localStreamRef, pcHeap, peerConnections, tasks, outbox, actionCount>>

\* mutant: a link that has failed is left as it is
ReceiveUserLeft_UnlessFailed(c) ==
    /\ c \in connected
    /\ inbox[c] # << >>
    /\ Head(inbox[c]).ev = "user-left"
    /\ inbox' = [inbox EXCEPT ![c] = Tail(@)]
    /\ LET userId == Head(inbox[c]).data
       IN  /\ cParticipants' = [cParticipants EXCEPT ![c] = RemoveParticipant(@, userId)]
           /\ IF /\ MapHas(peerConnections[c], userId)
                 /\ pcHeap[c][peerConnections[c][userId]].connectionState # "failed"
                 THEN /\ pcHeap' = [pcHeap EXCEPT ![c][peerConnections[c][userId]] = ClosePc(@)]
                      /\ peerConnections' = [peerConnections EXCEPT ![c] = MapDelete(@, userId)]
                 ELSE UNCHANGED <<pcHeap, peerConnections>>
    /\ UNCHANGED <<serverVars, eventCount, mediaVars, toggleVars, mediaInitialized, cRoomId, isScreenSharing,
                   localStreamRef, tasks, outbox, actionCount>>

\* socket.on('user-left')
ReceiveUserLeft(c) ==
    /\ c \in connected
    /\ inbox[c] # << >>
    /\ Head(inbox[c]).ev = "user-left"
    /\ inbox' = [inbox EXCEPT ![c] = Tail(@)]
    /\ LET userId == Head(inbox[c]).data
       IN  /\ cParticipants' = [cParticipants EXCEPT ![c] = RemoveParticipant(@, userId)]
           /\ IF MapHas(peerConnections[c], userId)
                 THEN /\ pcHeap' = [pcHeap EXCEPT ![c][peerConnections[c][userId]] = ClosePc(@)]
                      /\ peerConnections' = [peerConnections EXCEPT ![c] = MapDelete(@, userId)]
                 ELSE UNCHANGED <<pcHeap, peerConnections>>
    /\ UNCHANGED <<serverVars, eventCount, mediaVars, toggleVars, mediaInitialized, cRoomId, isScreenSharing,
                   localStreamRef, tasks, outbox, actionCount>>

\* handleOffer(senderId, offer) up to createAnswer; rollback: whether this browser
\* rolls a pending local offer back when a remote offer is applied
ReceiveOffer(c, rollback) ==
    /\ c \in connected
    /\ inbox[c] # << >>
    /\ Head(inbox[c]).ev = "offer"
    /\ inbox' = [inbox EXCEPT ![c] = Tail(@)]
    /\ LET senderId == Head(inbox[c]).data.sender
           has == MapHas(peerConnections[c], senderId)
           i == peerConnections[c][senderId]
       IN  IF has /\ pcHeap[c][i].signalingState # "closed"
                  /\ CanSetRemoteOffer(pcHeap[c][i], rollback)
              THEN /\ pcHeap' = [pcHeap EXCEPT ![c][i] = SetRemoteOffer(@)]
                   /\ tasks' = [tasks EXCEPT ![c] = Suspend(@, AnswerTask(i, senderId))]
              ELSE UNCHANGED <<pcHeap, tasks>>
    /\ UNCHANGED <<serverVars, eventCount, mediaVars, toggleVars, mediaInitialized, cRoomId, cParticipants,
                   isScreenSharing, localStreamRef, peerConnections, outbox, actionCount>>

\* handleAnswer(senderId, answer)
ReceiveAnswer(c) ==
    /\ c \in connected
    /\ inbox[c] # << >>
    /\ Head(inbox[c]).ev = "answer"
    /\ inbox' = [inbox EXCEPT ![c] = Tail(@)]
    /\ LET senderId == Head(inbox[c]).data.sender
           has == MapHas(peerConnections[c], senderId)
           i == peerConnections[c][senderId]
       IN  IF has /\ pcHeap[c][i].signalingState # "closed" /\ CanSetRemoteAnswer(pcHeap[c][i])
              THEN pcHeap' = [pcHeap EXCEPT ![c][i] = SetRemoteAnswer(@)]
              ELSE UNCHANGED pcHeap
    /\ UNCHANGED <<serverVars, eventCount, mediaVars, toggleVars, mediaInitialized, cRoomId, cParticipants,
                   isScreenSharing, localStreamRef, peerConnections, tasks, outbox, actionCount>>

\* createAndSendOffer resumes: createOffer, setLocalDescription, emit 'offer'; a
\* rejection is caught and logged. Then the existing-participants loop, if this
\* call came from it, goes on to its next participant.
OfferStep(c, t) ==
    /\ c \notin closed
    /\ BagIn(t, tasks[c])
    /\ t.kind = "offer"
    /\ LET ok == CanSetLocalOffer(pcHeap[c][t.pc])
           heap1 == IF ok THEN [pcHeap[c] EXCEPT ![t.pc] = SetLocalOffer(@)] ELSE pcHeap[c]
       IN  /\ outbox' = [outbox EXCEPT ![c] =
                            IF ok THEN Append(@, [type |-> "offer", target |-> t.target,
                                                  offer |-> Sdp])
                                  ELSE @]
           /\ IF t.rest = {}
                 THEN /\ pcHeap' = [pcHeap EXCEPT ![c] = heap1]
                      /\ tasks' = [tasks EXCEPT ![c] = Resume(@, t)]
                      /\ UNCHANGED <<cParticipants, peerConnections>>
                 ELSE \E p \in t.rest :
                        /\ cParticipants' = [cParticipants EXCEPT ![c] = AddParticipant(@, p)]
                        /\ pcHeap' = [pcHeap EXCEPT ![c] =
                                         Append(heap1, NewPeerConnection(p.id, TRUE,
                                                                          localStreamRef[c]))]
                        /\ peerConnections' = [peerConnections EXCEPT ![c] =
                                                  MapSet(@, p.id, Len(heap1) + 1)]
                        /\ tasks' = [tasks EXCEPT ![c] =
                                        Suspend(Resume(@, t),
                                                OfferTask(Len(heap1) + 1, p.id, t.rest \ {p}))]
    /\ UNCHANGED <<serverVars, eventCount, mediaVars, toggleVars, mediaInitialized, cRoomId, isScreenSharing,
                   localStreamRef, inbox, actionCount>>

\* handleOffer resumes: createAnswer, setLocalDescription, emit 'answer'
AnswerStep(c, t) ==
    /\ c \notin closed
    /\ BagIn(t, tasks[c])
    /\ t.kind = "answer"
    /\ LET ok == CanSetLocalAnswer(pcHeap[c][t.pc])
       IN  /\ pcHeap' = [pcHeap EXCEPT ![c][t.pc] = IF ok THEN SetLocalAnswer(@) ELSE @]
           /\ outbox' = [outbox EXCEPT ![c] =
                            IF ok THEN Append(@, [type |-> "answer", target |-> t.target,
                                                  answer |-> Sdp])
                                  ELSE @]
    /\ tasks' = [tasks EXCEPT ![c] = Resume(@, t)]
    /\ UNCHANGED <<serverVars, eventCount, mediaVars, toggleVars, mediaInitialized, cRoomId, cParticipants,
                   isScreenSharing, localStreamRef, peerConnections, inbox, actionCount>>

\* updatePeerConnectionStreams(): every callback of the forEach runs up to its
\* await of createOffer
UpdateTasks(c, stream) ==
    IF stream = None THEN EmptyBag
    ELSE SetToBag({OfferTask(peerConnections[c][k], k, {}) : k \in DOMAIN peerConnections[c]})
\* mutant: the tracks of the new stream are not put in place of the old ones
HeapAfterUpdate_OldTracks(c, stream) == pcHeap[c]
\* ... and has by then replaced the tracks of its link by those of `stream`
HeapAfterUpdate(c, stream) ==
    IF stream = None THEN pcHeap[c]
    ELSE [j \in DOMAIN pcHeap[c] |->
             IF \E k \in DOMAIN peerConnections[c] : peerConnections[c][k] = j
                THEN [pcHeap[c][j] EXCEPT !.tracks = stream,
                                          !.tracksReplaced = @ \/ pcHeap[c][j].tracks # stream]
                ELSE pcHeap[c][j]]

\* the effect on state.localStream, scheduled by a SET_LOCAL_STREAM dispatch
EffectTask == [kind |-> "effect", pc |-> 0, target |-> None, rest |-> {}]

\* one user action or platform event out of the `max` a run may hold
UserAction(max) ==
    /\ actionCount < max
    /\ actionCount' = actionCount + 1

\* shareScreen(), up to the end of the handler (sharing starts; granted: the
\* display capture is granted) or to its await of initializeMedia (sharing stops)
\* mutant: a rejected display-capture request still reaches updatePeerConnectionStreams
shareScreen_UpdatesAnyway(c, granted) ==
    /\ mediaInitialized[c]
    /\ c \notin closed
    /\ IF isScreenSharing[c]
          THEN /\ tasks' = [tasks EXCEPT ![c] = Suspend(@, MediaTask("stop", TRUE))]
               /\ UNCHANGED <<localStreamRef, liveTracks, isScreenSharing, pcHeap,
                              trackEnabled>>
          ELSE IF granted
          THEN /\ localStreamRef' = [localStreamRef EXCEPT ![c] = "screen"]
               /\ liveTracks' = [liveTracks EXCEPT ![c] = Acquire(@, "screen")]
               /\ trackEnabled' = [trackEnabled EXCEPT ![c] = NewTracks]
               /\ isScreenSharing' = [isScreenSharing EXCEPT ![c] = TRUE]
               /\ pcHeap' = [pcHeap EXCEPT ![c] = HeapAfterUpdate(c, "screen")]
               /\ tasks' = [tasks EXCEPT ![c] =
                               Suspend(@ (+) UpdateTasks(c, "screen"), EffectTask)]
          ELSE /\ pcHeap' = [pcHeap EXCEPT ![c] = HeapAfterUpdate(c, localStreamRef[c])]
               /\ tasks' = [tasks EXCEPT ![c] = @ (+) UpdateTasks(c, localStreamRef[c])]
               /\ UNCHANGED <<localStreamRef, liveTracks, isScreenSharing, trackEnabled>>
    /\ UNCHANGED <<serverVars, eventCount, mediaInitialized, cRoomId, cParticipants,
                   peerConnections, outbox, inbox, cChatMessages, alerts, mediaRequests,
                   attempts, reconnecting, isAudioEnabled, isVideoEnabled>>

shareScreen(c, granted) ==
    /\ mediaInitialized[c]
    /\ c \notin closed
    /\ IF isScreenSharing[c]
          THEN /\ tasks' = [tasks EXCEPT ![c] = Suspend(@, MediaTask("stop", TRUE))]
               /\ UNCHANGED <<localStreamRef, liveTracks, isScreenSharing, pcHeap,
                              trackEnabled>>
          ELSE IF granted
          THEN /\ localStreamRef' = [localStreamRef EXCEPT ![c] = "screen"]
               /\ liveTracks' = [liveTracks EXCEPT ![c] = Acquire(@, "screen")]
               /\ trackEnabled' = [trackEnabled EXCEPT ![c] = NewTracks]
               /\ isScreenSharing' = [isScreenSharing EXCEPT ![c] = TRUE]
               /\ pcHeap' = [pcHeap EXCEPT ![c] = HeapAfterUpdate(c, "screen")]
               /\ tasks' = [tasks EXCEPT ![c] =
                               Suspend(@ (+) UpdateTasks(c, "screen"), EffectTask)]
          ELSE UNCHANGED <<localStreamRef, liveTracks, isScreenSharing, pcHeap, tasks,
                           trackEnabled>>
    /\ UNCHANGED <<serverVars, eventCount, mediaInitialized, cRoomId, cParticipants,
                   peerConnections, outbox, inbox, cChatMessages, alerts, mediaRequests,
                   attempts, reconnecting, isAudioEnabled, isVideoEnabled>>

\* screenStream.getVideoTracks()[0].onended: the user stops the capture through
\* the platform; the handler runs up to its await of initializeMedia
TrackEnded(c) ==
    /\ c \notin closed
    /\ BagIn("screen", liveTracks[c])
    /\ liveTracks' = [liveTracks EXCEPT ![c] = Release(@, "screen")]
    /\ tasks' = [tasks EXCEPT ![c] = Suspend(@, MediaTask("ended", isScreenSharing[c]))]
    /\ UNCHANGED <<serverVars, eventCount, toggleVars, mediaInitialized, cRoomId, cParticipants,
                   isScreenSharing, localStreamRef, pcHeap, peerConnections, outbox, inbox,
                   cChatMessages, alerts, mediaRequests, attempts,
                   reconnecting>>

\* the getUserMedia requests of a pending initializeMedia call settle: the call
\* returns and its caller goes on (both dispatch TOGGLE_SCREEN_SHARE; shareScreen
\* then calls updatePeerConnectionStreams)
MediaStep(c, t, answers) ==
    /\ c \notin closed
    /\ BagIn(t, tasks[c])
    /\ t.kind = "media"
    /\ initializeMedia(c, answers)
    /\ isScreenSharing' = [isScreenSharing EXCEPT ![c] = ~@]
    /\ LET update == t.caller = "stop"
           effect == IF MediaGranted(answers) THEN SetToBag({EffectTask}) ELSE EmptyBag
       IN  /\ pcHeap' = [pcHeap EXCEPT ![c] =
                            IF update THEN HeapAfterUpdate(c, localStreamRef'[c]) ELSE @]
           /\ tasks' = [tasks EXCEPT ![c] =
                           Resume(@, t) (+) effect
                             (+) (IF update THEN UpdateTasks(c, localStreamRef'[c])
                                            ELSE EmptyBag)]
    /\ UNCHANGED <<serverVars, eventCount, mediaInitialized, cRoomId, cParticipants,
                   peerConnections, outbox, inbox, actionCount, cChatMessages, attempts,
                   reconnecting, isAudioEnabled, isVideoEnabled>>

\* useEffect(..., [state.localStream]) runs
LocalStreamEffect(c) ==
    /\ c \notin closed
    /\ BagIn(EffectTask, tasks[c])
    /\ pcHeap' = [pcHeap EXCEPT ![c] = HeapAfterUpdate(c, localStreamRef[c])]
    /\ tasks' = [tasks EXCEPT ![c] = Resume(@, EffectTask) (+) UpdateTasks(c, localStreamRef[c])]
    /\ UNCHANGED <<serverVars, eventCount, mediaVars, toggleVars, mediaInitialized, cRoomId, cParticipants,
                   isScreenSharing, localStreamRef, peerConnections, outbox, inbox,
                   actionCount>>

\* leaveRoom(); the page stays alive until the navigation to /dashboard commits
leaveRoom(c) ==
    /\ c \notin closed
    /\ cRoomId[c] # None
    /\ outbox' = [outbox EXCEPT ![c] = Append(@, [type |-> "leave-room"])]
    /\ pcHeap' = [pcHeap EXCEPT ![c] =
                     [j \in DOMAIN @ |->
                         IF \E k \in DOMAIN peerConnections[c] : peerConnections[c][k] = j
                            THEN ClosePc(@[j]) ELSE @[j]]]
    /\ peerConnections' = [peerConnections EXCEPT ![c] = EmptyMap]
    /\ liveTracks' = [liveTracks EXCEPT ![c] =
                         IF localStreamRef[c] = None THEN @ ELSE Release(@, localStreamRef[c])]
    /\ localStreamRef' = [localStreamRef EXCEPT ![c] = None]
    /\ cParticipants' = [cParticipants EXCEPT ![c] = << >>]
    /\ cRoomId' = [cRoomId EXCEPT ![c] = None]
    /\ isScreenSharing' = [isScreenSharing EXCEPT ![c] = FALSE]
    /\ cChatMessages' = [cChatMessages EXCEPT ![c] = << >>]
    /\ isAudioEnabled' = [isAudioEnabled EXCEPT ![c] = TRUE]
    /\ isVideoEnabled' = [isVideoEnabled EXCEPT ![c] = TRUE]
    /\ trackEnabled' = [trackEnabled EXCEPT ![c] = NewTracks]
    /\ UNCHANGED <<serverVars, eventCount, mediaInitialized, tasks, inbox, alerts,
                   mediaRequests, attempts, reconnecting>>

\* ================================================================ session
\* the clients and the server together

\* the server's emissions reach the sockets they are addressed to, in order
RECURSIVE Deliver(_, _)
Deliver(ib, ems) ==
    IF ems = << >> THEN ib
    ELSE Deliver([x \in Sockets |->
                     IF x \in Head(ems).to
                        THEN Append(ib[x], [ev |-> Head(ems).ev, data |-> Head(ems).data])
                        ELSE ib[x]],
                 Tail(ems))

\* the transport of a client that called socket.connect() opens
SessionConnection(c) ==
    /\ mediaInitialized[c]
    /\ eventCount < MaxSessionEvents
    /\ eventCount' = eventCount + 1
    /\ Connection(c)
    /\ UNCHANGED clientVars

\* the server handles the oldest event client c emitted
Receive(c, type, handler) ==
    /\ outbox[c] # << >>
    /\ Head(outbox[c]).type = type
    /\ eventCount < MaxSessionEvents
    /\ eventCount' = eventCount + 1
    /\ handler
    /\ outbox' = [outbox EXCEPT ![c] = Tail(@)]
    /\ inbox' = Deliver(inbox, emitted')
    /\ UNCHANGED <<mediaInitialized, cRoomId, cParticipants, isScreenSharing,
                   localStreamRef, pcHeap, peerConnections, tasks, actionCount, mediaVars,
                   toggleVars>>

SessionJoinRoom(c) ==
    Receive(c, "join-room", JoinRoom(c, Head(outbox[c]).roomId, Head(outbox[c]).userName))
SessionOffer(c) ==
    Receive(c, "offer", Offer(c, Head(outbox[c]).target, Head(outbox[c]).offer))
SessionAnswer(c) ==
    Receive(c, "answer", Answer(c, Head(outbox[c]).target, Head(outbox[c]).answer))
SessionLeaveRoom(c) ==
    Receive(c, "leave-room", LeaveRoom(c))

\* the transport of client c closes (page closed, crash, network loss): the
\* server's disconnect handler runs; what was still in flight is lost and the
\* client handles nothing more
TransportClose(c) ==
    /\ Disconnect(c)
    /\ outbox' = [outbox EXCEPT ![c] = << >>]
    /\ inbox' = [Deliver(inbox, emitted') EXCEPT ![c] = << >>]
    /\ tasks' = [tasks EXCEPT ![c] = EmptyBag]
    /\ UNCHANGED <<eventCount, toggleVars, mediaInitialized, cRoomId, cParticipants, isScreenSharing,
                   localStreamRef, pcHeap, peerConnections, mediaVars>>

SessionNext ==
    \/ \E c \in Sockets, r \in SessionRooms : joinRoom(c, r, Granted)
    \/ \E c \in Sockets : SessionConnection(c)
    \/ \E c \in Sockets : SessionJoinRoom(c)
    \/ \E c \in Sockets : SessionOffer(c)
    \/ \E c \in Sockets : SessionAnswer(c)
    \/ \E c \in Sockets : SessionLeaveRoom(c)
    \/ \E c \in Sockets : UserAction(MaxActions) /\ TransportClose(c)
    \/ \E c \in Sockets : ReceiveExistingParticipants(c)
    \/ \E c \in Sockets : ReceiveUserJoined(c)
    \/ \E c \in Sockets : ReceiveUserLeft(c)
    \/ \E c \in Sockets, rollback \in BOOLEAN : ReceiveOffer(c, rollback)
    \/ \E c \in Sockets : ReceiveAnswer(c)
    \/ \E c \in Sockets : \E t \in BagToSet(tasks[c]) : OfferStep(c, t)
    \/ \E c \in Sockets : \E t \in BagToSet(tasks[c]) : AnswerStep(c, t)
    \/ \E c \in Sockets : UserAction(MaxActions) /\ ~isScreenSharing[c] /\ shareScreen(c, TRUE)
    \/ \E c \in Sockets : LocalStreamEffect(c)
    \/ \E c \in Sockets : UserAction(MaxActions) /\ leaveRoom(c)

SessionSpec == Init /\ [][SessionNext]_vars

\* ================================================================ call
\* a call between two parties: the session handlers above, together with the
\* media handlers (MediaSpec), the ICE and connection-state handlers (LinkSpec),
\* the chat handlers (ChatSpec) or the reconnection of the socket (ReconnectSpec)

\* the pages that open the room
CallParties == {"s1", "s2"}
\* source switches, capture ends and leaveRoom calls in one call
MaxMediaActions == 3
\* link failures, source switches and transport closes in one call
MaxLinkActions == 2
\* messages sent and deleted in one call
MaxChatActions == 2
\* transports lost in one call
MaxLosses == 1
\* candidates a link hands to onicecandidate
MaxCandidates == 1
\* reconnectionAttempts of the socket's manager
ReconnectionAttempts == 5
\* the candidate a client puts in an ice-candidate message
Candidate == "p2"
\* the ids Date.now().toString() may give a chat message
MessageIds == {"t1", "t2"}
\* the ChatMessage object built when the clock of the client reads `now`
ClientChatMessageAt(message, now) ==
    [ClientChatMessage(message) EXCEPT !.id = now, !.timestamp = now]

\* addIceCandidate resolves once a remote description is set and rejects before
CanAddIceCandidate(pc) == pc.hasRemote
AddIceCandidate(pc) ==
    IF CanAddIceCandidate(pc) THEN [pc EXCEPT !.candidates = @ + 1]
                              ELSE [pc EXCEPT !.lost = @ + 1]

\* peerConnection.onicecandidate with a candidate: gathering runs once a local
\* description is set
IceCandidateFound(c, i) ==
    /\ c \notin closed
    /\ i \in DOMAIN pcHeap[c]
    /\ pcHeap[c][i].hasLocal
    /\ pcHeap[c][i].connectionState # "closed"
    /\ pcHeap[c][i].gathered < MaxCandidates
    /\ pcHeap' = [pcHeap EXCEPT ![c][i].gathered = @ + 1]
    /\ outbox' = [outbox EXCEPT ![c] = Append(@, [type |-> "ice-candidate",
                                                  target |-> pcHeap[c][i].remote,
                                                  candidate |-> Candidate])]
    /\ UNCHANGED <<serverVars, eventCount, mediaVars, toggleVars, mediaInitialized, cRoomId, cParticipants,
                   isScreenSharing, localStreamRef, peerConnections, tasks, inbox,
                   actionCount>>

\* handleIceCandidate(senderId, candidate); a rejection of addIceCandidate is
\* caught and logged
ReceiveIceCandidate(c) ==
    /\ c \in connected
    /\ inbox[c] # << >>
    /\ Head(inbox[c]).ev = "ice-candidate"
    /\ inbox' = [inbox EXCEPT ![c] = Tail(@)]
    /\ LET senderId == Head(inbox[c]).data.sender
           has == MapHas(peerConnections[c], senderId)
           i == peerConnections[c][senderId]
       IN  IF has /\ pcHeap[c][i].connectionState # "closed"
              THEN pcHeap' = [pcHeap EXCEPT ![c][i] = AddIceCandidate(@)]
              ELSE UNCHANGED pcHeap
    /\ UNCHANGED <<serverVars, eventCount, mediaVars, toggleVars, mediaInitialized, cRoomId, cParticipants,
                   isScreenSharing, localStreamRef, peerConnections, tasks, outbox,
                   actionCount>>

\* peerConnection.onconnectionstatechange: the platform moves an open link that
\* holds both descriptions to `st`; on 'failed' the handler calls restartIce()
ConnectionStateChange(c, i, st) ==
    /\ c \notin closed
    /\ i \in DOMAIN pcHeap[c]
    /\ pcHeap[c][i].connectionState \notin {"closed", st}
    /\ pcHeap[c][i].hasLocal /\ pcHeap[c][i].hasRemote
    /\ IF st = "failed"
          THEN /\ UserAction(MaxLinkActions)
               /\ pcHeap' = [pcHeap EXCEPT ![c][i].connectionState = st,
                                           ![c][i].failures = @ + 1,
                                           ![c][i].restarts = @ + 1]
          ELSE /\ pcHeap' = [pcHeap EXCEPT ![c][i].connectionState = st]
               /\ UNCHANGED actionCount
    /\ UNCHANGED <<serverVars, eventCount, mediaVars, toggleVars, mediaInitialized, cRoomId, cParticipants,
                   isScreenSharing, localStreamRef, peerConnections, tasks, outbox, inbox>>

\* reducer cases ADD_CHAT_MESSAGE and DELETE_CHAT_MESSAGE
AddChatMessage(msgs, m) == Append(msgs, m)
DeleteChatMessage(msgs, id) == SelectSeq(msgs, LAMBDA m : m.id # id)

\* sendChatMessage(message)
sendChatMessage(c, message, now) ==
    /\ c \notin closed
    /\ cRoomId[c] # None
    /\ outbox' = [outbox EXCEPT ![c] = Append(@, [type |-> "chat-message",
                                                  roomId |-> cRoomId[c],
                                                  message |->
                                                     ClientChatMessageAt(message, now)])]
    /\ cChatMessages' = [cChatMessages EXCEPT ![c] =
                            AddChatMessage(@, ClientChatMessageAt(message, now))]
    /\ UNCHANGED <<serverVars, eventCount, toggleVars, mediaInitialized, cRoomId, cParticipants,
                   isScreenSharing, localStreamRef, pcHeap, peerConnections, tasks, inbox,
                   liveTracks, alerts, mediaRequests, attempts, reconnecting>>

\* socket.on('chat-message')
ReceiveChatMessage(c) ==
    /\ c \in connected
    /\ inbox[c] # << >>
    /\ Head(inbox[c]).ev = "chat-message"
    /\ inbox' = [inbox EXCEPT ![c] = Tail(@)]
    /\ cChatMessages' = [cChatMessages EXCEPT ![c] = AddChatMessage(@, Head(inbox[c]).data)]
    /\ UNCHANGED <<serverVars, eventCount, toggleVars, mediaInitialized, cRoomId, cParticipants,
                   isScreenSharing, localStreamRef, pcHeap, peerConnections, tasks, outbox,
                   actionCount, liveTracks, alerts, mediaRequests, attempts, reconnecting>>

\* mutant: the deletion is announced to the room
deleteChatMessage_Announced(c, id) ==
    /\ c \notin closed
    /\ mediaInitialized[c]
    /\ cChatMessages' = [cChatMessages EXCEPT ![c] = DeleteChatMessage(@, id)]
    /\ outbox' = [outbox EXCEPT ![c] = Append(@, [type |-> "delete-message", id |-> id])]
    /\ UNCHANGED <<serverVars, eventCount, toggleVars, mediaInitialized, cRoomId, cParticipants,
                   isScreenSharing, localStreamRef, pcHeap, peerConnections, tasks, inbox,
                   liveTracks, alerts, mediaRequests, attempts, reconnecting>>

\* deleteChatMessage(id)
deleteChatMessage(c, id) ==
    /\ c \notin closed
    /\ mediaInitialized[c]
    /\ cChatMessages' = [cChatMessages EXCEPT ![c] = DeleteChatMessage(@, id)]
    /\ UNCHANGED <<serverVars, eventCount, toggleVars, mediaInitialized, cRoomId, cParticipants,
                   isScreenSharing, localStreamRef, pcHeap, peerConnections, tasks, outbox,
                   inbox, liveTracks, alerts, mediaRequests, attempts, reconnecting>>

SessionIceCandidate(c) ==
    Receive(c, "ice-candidate",
            IceCandidate(c, Head(outbox[c]).target, Head(outbox[c]).candidate))
SessionChatMessage(c) ==
    Receive(c, "chat-message",
            ChatMessage(c, Head(outbox[c]).roomId, Head(outbox[c]).message))

\* the transport of client c is lost while its page stays open: the server's
\* disconnect handler runs, what was in flight is lost, and the socket's
\* manager starts reconnecting (the page handles nothing until it succeeds)
TransportLoss(c) ==
    /\ Disconnect(c)
    /\ outbox' = [outbox EXCEPT ![c] = << >>]
    /\ inbox' = [Deliver(inbox, emitted') EXCEPT ![c] = << >>]
    /\ reconnecting' = reconnecting \cup {c}
    /\ attempts' = [attempts EXCEPT ![c] = 0]
    /\ UNCHANGED <<eventCount, toggleVars, mediaInitialized, cRoomId, cParticipants, isScreenSharing,
                   localStreamRef, pcHeap, peerConnections, tasks, liveTracks, cChatMessages,
                   alerts, mediaRequests>>

\* a reconnection attempt fails: 'connect_error'
ReconnectFails(c) ==
    /\ c \in reconnecting
    /\ attempts[c] < ReconnectionAttempts
    /\ attempts' = [attempts EXCEPT ![c] = @ + 1]
    /\ UNCHANGED <<serverVars, eventCount, toggleVars, mediaInitialized, cRoomId, cParticipants,
                   isScreenSharing, localStreamRef, pcHeap, peerConnections, tasks, outbox,
                   inbox, actionCount, liveTracks, cChatMessages, alerts, mediaRequests,
                   reconnecting>>

\* the state of the page that was connected as c is from now on that of the
\* page connected as s
Moved(v, c, s, initial) == [v EXCEPT ![s] = v[c], ![c] = initial]

\* a reconnection attempt succeeds: the page is connected again, under the new
\* socket id s; its 'connect' handler dispatches SET_CONNECTED and emits nothing
Reconnect(c, s) ==
    /\ c \in reconnecting
    /\ attempts[c] < ReconnectionAttempts
    /\ ~mediaInitialized[s]
    /\ eventCount < MaxSessionEvents
    /\ eventCount' = eventCount + 1
    /\ Connection(s)
    /\ reconnecting' = reconnecting \ {c}
    /\ attempts' = [attempts EXCEPT ![c] = 0]
    /\ mediaInitialized' = Moved(mediaInitialized, c, s, FALSE)
    /\ cRoomId' = Moved(cRoomId, c, s, None)
    /\ cParticipants' = Moved(cParticipants, c, s, << >>)
    /\ isScreenSharing' = Moved(isScreenSharing, c, s, FALSE)
    /\ localStreamRef' = Moved(localStreamRef, c, s, None)
    /\ pcHeap' = Moved(pcHeap, c, s, << >>)
    /\ peerConnections' = Moved(peerConnections, c, s, EmptyMap)
    /\ tasks' = Moved(tasks, c, s, EmptyBag)
    /\ outbox' = Moved(outbox, c, s, << >>)
    /\ liveTracks' = Moved(liveTracks, c, s, EmptyBag)
    /\ cChatMessages' = Moved(cChatMessages, c, s, << >>)
    /\ alerts' = Moved(alerts, c, s, 0)
    /\ mediaRequests' = Moved(mediaRequests, c, s, << >>)
    /\ isAudioEnabled' = Moved(isAudioEnabled, c, s, TRUE)
    /\ isVideoEnabled' = Moved(isVideoEnabled, c, s, TRUE)
    /\ trackEnabled' = Moved(trackEnabled, c, s, NewTracks)
    /\ UNCHANGED <<inbox, actionCount>>

\* what every call has: the transports open, the server handles join-room, offer
\* and answer, and the clients handle what these bring
Signaling ==
    \/ \E c \in Sockets : SessionConnection(c)
    \/ \E c \in Sockets : SessionJoinRoom(c)
    \/ \E c \in Sockets : SessionOffer(c)
    \/ \E c \in Sockets : SessionAnswer(c)
    \/ \E c \in Sockets : ReceiveExistingParticipants(c)
    \/ \E c \in Sockets : ReceiveUserJoined(c)
    \/ \E c \in Sockets, rollback \in BOOLEAN : ReceiveOffer(c, rollback)
    \/ \E c \in Sockets : ReceiveAnswer(c)
    \/ \E c \in Sockets : \E t \in BagToSet(tasks[c]) : OfferStep(c, t)
    \/ \E c \in Sockets : \E t \in BagToSet(tasks[c]) : AnswerStep(c, t)

\* and the clients handle the departure of a participant
CallBase ==
    \/ Signaling
    \/ \E c \in Sockets : ReceiveUserLeft(c)

\* ---- the microphone and camera switches of the control bar
\* user actions of the party that uses the switches (see UserAction)
MaxToggleActions == 2

\* reducer case 'UPDATE_PARTICIPANT'
UpdateParticipant(ps, id, field, value) ==
    [i \in DOMAIN ps |-> IF ps[i].id = id THEN [ps[i] EXCEPT ![field] = value] ELSE ps[i]]

\* reducer cases 'TOGGLE_AUDIO' / 'TOGGLE_VIDEO': the tracks of that kind of
\* state.localStream, if there is a stream
TracksAfterToggle(c, kind, enabled) ==
    IF localStreamRef[c] # None THEN [trackEnabled[c] EXCEPT ![kind] = enabled]
                                ELSE trackEnabled[c]

\* the microphone button: dispatch TOGGLE_AUDIO, then the effect on
\* state.isAudioEnabled notifies the server if the page holds a room id
toggleAudio(c) ==
    /\ c \notin closed
    /\ LET enabled == ~isAudioEnabled[c]
       IN  /\ isAudioEnabled' = [isAudioEnabled EXCEPT ![c] = enabled]
           /\ trackEnabled' = [trackEnabled EXCEPT ![c] = TracksAfterToggle(c, "audio", enabled)]
           /\ outbox' = [outbox EXCEPT ![c] =
                            IF cRoomId[c] # None
                               THEN Append(@, [type |-> "toggle-audio", roomId |-> cRoomId[c],
                                               audioEnabled |-> enabled])
                               ELSE @]
    /\ UNCHANGED <<serverVars, eventCount, mediaVars, mediaInitialized, cRoomId, cParticipants,
                   isScreenSharing, localStreamRef, pcHeap, peerConnections, tasks, inbox,
                   isVideoEnabled>>

\* the camera button: dispatch TOGGLE_VIDEO, then the effect on state.isVideoEnabled
toggleVideo(c) ==
    /\ c \notin closed
    /\ LET enabled == ~isVideoEnabled[c]
       IN  /\ isVideoEnabled' = [isVideoEnabled EXCEPT ![c] = enabled]
           /\ trackEnabled' = [trackEnabled EXCEPT ![c] = TracksAfterToggle(c, "video", enabled)]
           /\ outbox' = [outbox EXCEPT ![c] =
                            IF cRoomId[c] # None
                               THEN Append(@, [type |-> "toggle-video", roomId |-> cRoomId[c],
                                               videoEnabled |-> enabled])
                               ELSE @]
    /\ UNCHANGED <<serverVars, eventCount, mediaVars, mediaInitialized, cRoomId, cParticipants,
                   isScreenSharing, localStreamRef, pcHeap, peerConnections, tasks, inbox,
                   isAudioEnabled>>

SessionToggleAudio(c) ==
    Receive(c, "toggle-audio",
            ToggleAudio(c, Head(outbox[c]).roomId, Head(outbox[c]).audioEnabled))
SessionToggleVideo(c) ==
    Receive(c, "toggle-video",
            ToggleVideo(c, Head(outbox[c]).roomId, Head(outbox[c]).videoEnabled))

\* socket.on('participant-audio-toggle') / socket.on('participant-video-toggle')
ReceiveParticipantToggle(c, ev, field) ==
    /\ c \in connected
    /\ inbox[c] # << >>
    /\ Head(inbox[c]).ev = ev
    /\ inbox' = [inbox EXCEPT ![c] = Tail(@)]
    /\ cParticipants' = [cParticipants EXCEPT ![c] =
                            UpdateParticipant(@, Head(inbox[c]).data.participantId, field,
                                              Head(inbox[c]).data[field])]
    /\ UNCHANGED <<serverVars, eventCount, mediaVars, toggleVars, mediaInitialized, cRoomId,
                   isScreenSharing, localStreamRef, pcHeap, peerConnections, tasks, outbox,
                   actionCount>>

\* the party that uses the switches and shares its screen
ToggleParty == "s2"

ToggleNext ==
    \/ \E c \in CallParties, r \in SessionRooms : joinRoom(c, r, Granted)
    \/ Signaling
    \/ UserAction(MaxToggleActions) /\ toggleAudio(ToggleParty)
    \/ UserAction(MaxToggleActions) /\ toggleVideo(ToggleParty)
    \/ \E c \in Sockets : SessionToggleAudio(c)
    \/ \E c \in Sockets : SessionToggleVideo(c)
    \/ \E c \in Sockets : ReceiveParticipantToggle(c, "participant-audio-toggle", "audioEnabled")
    \/ \E c \in Sockets : ReceiveParticipantToggle(c, "participant-video-toggle", "videoEnabled")
    \/ UserAction(MaxToggleActions) /\ ~isScreenSharing[ToggleParty]
          /\ shareScreen(ToggleParty, TRUE)
    \/ \E c \in Sockets : LocalStreamEffect(c)

ToggleSpec == Init /\ [][ToggleNext]_vars

\* ---- a call in which nobody leaves, disconnects or switches its source, and
\* what is in flight is eventually handled
HandshakeNext ==
    \/ \E c \in CallParties, r \in SessionRooms, a \in MediaAnswers : joinRoom(c, r, a)
    \/ Signaling

HandshakeSpec == Init /\ [][HandshakeNext]_vars /\ WF_vars(Signaling)

\* ---- a call in which one party, MediaParty, acquires and switches its media
\* sources and leaves; the camera of the other party is granted at once
MediaParty == "s2"

MediaNext ==
    \/ \E c \in CallParties, r \in SessionRooms, a \in MediaAnswers :
          (c = MediaParty \/ a = Granted) /\ joinRoom(c, r, a)
    \/ CallBase
    \/ \E granted \in BOOLEAN : UserAction(MaxMediaActions) /\ shareScreen(MediaParty, granted)
    \/ UserAction(MaxMediaActions) /\ TrackEnded(MediaParty)
    \/ \E c \in Sockets : \E t \in BagToSet(tasks[c]), a \in MediaAnswers : MediaStep(c, t, a)
    \/ \E c \in Sockets : LocalStreamEffect(c)
    \/ UserAction(MaxMediaActions) /\ leaveRoom(MediaParty)
    \/ \E c \in Sockets : SessionLeaveRoom(c)

MediaSpec == Init /\ [][MediaNext]_vars

\* ---- a call in which candidates are exchanged, links connect and fail, and a
\* party switches its source, leaves or goes away
LinkNext ==
    \/ \E c \in CallParties, r \in SessionRooms : joinRoom(c, r, Granted)
    \/ CallBase
    \/ \E c \in Sockets : SessionIceCandidate(c)
    \/ \E c \in Sockets : ReceiveIceCandidate(c)
    \/ \E c \in Sockets : \E i \in DOMAIN pcHeap[c] : IceCandidateFound(c, i)
    \/ \E c \in Sockets : \E i \in DOMAIN pcHeap[c], st \in {"connected", "failed"} :
          ConnectionStateChange(c, i, st)
    \/ \E c \in Sockets : UserAction(MaxLinkActions) /\ ~isScreenSharing[c] /\ shareScreen(c, TRUE)
    \/ \E c \in Sockets : LocalStreamEffect(c)
    \/ \E c \in Sockets : UserAction(MaxLinkActions) /\ TransportClose(c)
    \/ \E c \in Sockets : UserAction(MaxLinkActions) /\ leaveRoom(c)
    \/ \E c \in Sockets : SessionLeaveRoom(c)

LinkSpec == Init /\ [][LinkNext]_vars

\* ---- a call in which the parties chat
ChatNext ==
    \/ \E c \in CallParties, r \in SessionRooms : joinRoom(c, r, Granted)
    \/ CallBase
    \/ \E c \in Sockets, m \in ChatTexts, now \in MessageIds :
          UserAction(MaxChatActions) /\ sendChatMessage(c, m, now)
    \/ \E c \in Sockets : SessionChatMessage(c)
    \/ \E c \in Sockets : ReceiveChatMessage(c)
    \/ \E c \in Sockets, id \in MessageIds : UserAction(MaxChatActions) /\ deleteChatMessage(c, id)
    \/ \E c \in Sockets : UserAction(MaxChatActions) /\ TransportClose(c)

ChatSpec == Init /\ [][ChatNext]_vars

\* ---- a call in which a party loses its transport
ReconnectNext ==
    \/ \E c \in CallParties, r \in SessionRooms : joinRoom(c, r, Granted)
    \/ CallBase
    \/ \E c \in Sockets : UserAction(MaxLosses) /\ TransportLoss(c)
    \/ \E c \in Sockets : ReconnectFails(c)
    \/ \E c \in Sockets, s \in Sockets : Reconnect(c, s)

ReconnectSpec == Init /\ [][ReconnectNext]_vars

\* the same call with the event loops of the server and of the clients running:
\* what is in flight is eventually handled
ReconnectFairSpec == ReconnectSpec /\ WF_vars(CallBase)



\* ================================================================ claims
\* the participant set the registry holds for room r
Registered(rs, r) == IF MapHas(rs, r) THEN DOMAIN rs[r] ELSE {}
\* the rooms in which the registry holds an entry for socket s
EntriesOf(rs, s) == {r \in DOMAIN rs : MapHas(rs[r], s)}
\* the indices of the emissions of event ev in an emission sequence
EmissionsOf(em, ev) == {i \in 1..Len(em) : em[i].ev = ev}
\* the connections an emission sequence delivers event ev to
Recipients(em, ev) == UNION {em[i].to : i \in EmissionsOf(em, ev)}
\* this step dispatches an event of the given type
Dispatched(type) == eventCount' = eventCount + 1 /\ handled'.type = type
RelayTypes == {"offer", "answer", "ice-candidate"}

\* C1: for every room, the registry's participant set is exactly the set of
\* live connections whose most recent join-room was to that room and that
\* have not since left or disconnected.
C1_RegistryEqualsJoined ==
    \A r \in RoomIds : Registered(rooms, r) = {s \in connected : joined[s] = r}

\* C2: no room key of the rooms map has an empty participant map.
C2_NoEmptyRoom ==
    \A r \in DOMAIN rooms : MapSize(rooms[r]) > 0

\* C2 witness: a leave-room or disconnect removed the last participant of a
\* room and the room is gone from the map.
C2_Witness ==
    /\ handled.type \in {"leave-room", "disconnect"}
    /\ Len(emitted) = 1
    /\ ~MapHas(rooms, sockRoomId[handled.socket])

\* C3: after a connection sends join-room again without an intervening
\* leave-room, the registry holds exactly one entry for it across all rooms.
C3_SecondJoinReplaces ==
    [][(Dispatched("join-room") /\ joined[handled'.socket] # None)
          => Cardinality(EntriesOf(rooms', handled'.socket)) = 1]_vars

\* C4: a connection joining a room that holds N >= 1 participants other than
\* itself is sent exactly one existing-participants message, whose list is
\* exactly the registry records (id, name, current audio/video flags) of
\* those N participants and does not contain the joiner.
C4_ExistingParticipantsList ==
    [][(Dispatched("join-room")
         /\ Registered(rooms, handled'.roomId) \ {handled'.socket} # {})
          => LET s == handled'.socket
                 r == handled'.roomId
                 others == Registered(rooms, r) \ {s}
             IN  /\ Cardinality(EmissionsOf(emitted', "existing-participants")) = 1
                 /\ \A i \in EmissionsOf(emitted', "existing-participants") :
                       /\ emitted'[i].to = {s}
                       /\ emitted'[i].data = {rooms[r][p] : p \in others}
                       /\ Cardinality(emitted'[i].data) = Cardinality(others)
                       /\ \A p \in emitted'[i].data : p.id # s]_vars

\* C4 witness: a join-room was answered with a list that carries a
\* participant whose audio flag had been toggled off.
C4_Witness ==
    /\ handled.type = "join-room"
    /\ \E i \in EmissionsOf(emitted, "existing-participants") :
          /\ emitted[i].to = {handled.socket}
          /\ \E p \in emitted[i].data : ~p.audioEnabled

\* C5: a connection whose join-room creates the room is still sent an
\* existing-participants message, carrying the empty list.
C5_EmptyListSent ==
    [][(Dispatched("join-room") /\ ~MapHas(rooms, handled'.roomId))
          => \E i \in EmissionsOf(emitted', "existing-participants") :
                emitted'[i].to = {handled'.socket} /\ emitted'[i].data = {}]_vars

\* C6: in every join-room handler the existing-participants emission to the
\* joiner precedes the user-joined broadcast: no existing-participants is
\* emitted after user-joined, and whenever user-joined reaches a registered
\* member of the room an existing-participants emission came first.
C6_ExistingBeforeUserJoined ==
    handled.type = "join-room" =>
        /\ \A i \in EmissionsOf(emitted, "existing-participants"),
              j \in EmissionsOf(emitted, "user-joined") : i < j
        /\ \A j \in EmissionsOf(emitted, "user-joined") :
              (emitted[j].to \cap Registered(rooms, handled.roomId) # {})
                 => \E i \in EmissionsOf(emitted, "existing-participants") :
                       i < j /\ emitted[i].to = {handled.socket}

\* C6 witness: a join-room emitted both messages, user-joined reaching someone.
C6_Witness ==
    /\ handled.type = "join-room"
    /\ Len(emitted) = 2
    /\ emitted[1].ev = "existing-participants"
    /\ emitted[2].ev = "user-joined"
    /\ emitted[2].to # {}

\* C7: on join-room by c to r, user-joined{id = c} is delivered to every
\* other connection currently in r, not to c, and to no connection that is
\* currently in a different room.
C7_UserJoinedScope ==
    handled.type = "join-room" =>
        LET c == handled.socket
            r == handled.roomId
            to == Recipients(emitted, "user-joined")
        IN  /\ \A i \in EmissionsOf(emitted, "user-joined") : emitted[i].data.id = c
            /\ {x \in connected \ {c} : joined[x] = r} \subseteq to
            /\ c \notin to
            /\ \A x \in to : joined[x] \in {None, r}

\* C8: an offer, answer or ice-candidate from s with target t is delivered to
\* at most the connection whose id is t, tagged with sender s and the payload
\* unchanged; to nobody if t is not the id of a live connection.
C8_RelayToTargetOnly ==
    handled.type \in RelayTypes =>
        /\ Len(emitted) = 1
        /\ emitted[1].ev = handled.type
        /\ emitted[1].to \subseteq ({handled.target} \cap connected)
        /\ emitted[1].data.sender = handled.socket
        /\ handled.payload \in {emitted[1].data[f] : f \in DOMAIN emitted[1].data \ {"sender"}}

\* two connections hold entries in one room of the registry
SharesRoom(rs, s, x) == \E r \in DOMAIN rs : MapHas(rs[r], s) /\ MapHas(rs[r], x)

\* C9: every message the relay delivers on behalf of a sender reaches only
\* connections registered in the same room as the sender (the room it is
\* leaving, for user-left), whatever roomId or target the payload names.
C9_RoomScopedRelay ==
    [][(eventCount' = eventCount + 1 /\ handled'.type # "connection")
          => \A i \in 1..Len(emitted') : \A x \in emitted'[i].to \ {handled'.socket} :
                \/ SharesRoom(rooms, handled'.socket, x)
                \/ SharesRoom(rooms', handled'.socket, x)]_vars

\* C10: a toggle-audio (toggle-video) from c changes at most the audioEnabled
\* (videoEnabled) field of c's own record in the named room; every other
\* record of every room is unchanged and no record or room appears or goes.
C10_ToggleOwnRecordOnly ==
    [][(Dispatched("toggle-audio") \/ Dispatched("toggle-video"))
          => LET c == handled'.socket
                 field == IF handled'.type = "toggle-audio" THEN "audioEnabled"
                                                              ELSE "videoEnabled"
             IN  /\ DOMAIN rooms' = DOMAIN rooms
                 /\ \A r \in DOMAIN rooms :
                       /\ DOMAIN rooms'[r] = DOMAIN rooms[r]
                       /\ \A p \in DOMAIN rooms[r] :
                             \/ rooms'[r][p] = rooms[r][p]
                             \/ /\ p = c
                                /\ r = handled'.roomId
                                /\ \A f \in DOMAIN rooms[r][p] \ {field} :
                                      rooms'[r][p][f] = rooms[r][p][f]]_vars

\* C10 witness: a toggle-audio switched the sender's flag off in a room that
\* holds another participant.
C10_Witness ==
    /\ handled.type = "toggle-audio"
    /\ Len(emitted) = 1
    /\ ~rooms[handled.roomId][handled.socket].audioEnabled
    /\ MapSize(rooms[handled.roomId]) >= 2

\* the live connections, other than c, the registry holds in room r
OtherMembers(rs, r, c) == (Registered(rs, r) \cap connected) \ {c}

\* C11: when a toggle-audio / toggle-video from a participant c registered in
\* the named room is applied, one participant-audio-toggle /
\* participant-video-toggle with participantId = c and the new value goes to
\* every other member of that room and not to c, and the registry record of c
\* holds the new value; the existing-participants list of a later join-room
\* carries the registry records, flags included, of the participants it finds.
C11_ToggleBroadcastAndSnapshot ==
    [][/\ ((Dispatched("toggle-audio") \/ Dispatched("toggle-video"))
            /\ handled'.socket \in Registered(rooms, handled'.roomId))
          => LET c == handled'.socket
                 r == handled'.roomId
                 v == handled'.enabled
                 audio == handled'.type = "toggle-audio"
             IN  /\ Len(emitted') = 1
                 /\ emitted'[1].ev = (IF audio THEN "participant-audio-toggle"
                                               ELSE "participant-video-toggle")
                 /\ emitted'[1].data = (IF audio
                                           THEN [participantId |-> c, audioEnabled |-> v]
                                           ELSE [participantId |-> c, videoEnabled |-> v])
                 /\ OtherMembers(rooms, r, c) \subseteq emitted'[1].to
                 /\ c \notin emitted'[1].to
                 /\ (IF audio THEN rooms'[r][c].audioEnabled
                              ELSE rooms'[r][c].videoEnabled) = v
       /\ Dispatched("join-room")
          => \A p \in Registered(rooms, handled'.roomId) \ {handled'.socket} :
                \E i \in EmissionsOf(emitted', "existing-participants") :
                   /\ emitted'[i].to = {handled'.socket}
                   /\ rooms[handled'.roomId][p] \in emitted'[i].data]_vars

\* C11 witness: a connection joined after a participant of the room had
\* switched its video off, and its list shows that participant with video off.
C11_Witness ==
    /\ handled.type = "join-room"
    /\ \E i \in EmissionsOf(emitted, "existing-participants") :
          /\ emitted[i].to = {handled.socket}
          /\ \E p \in emitted[i].data :
                /\ ~p.videoEnabled
                /\ p.audioEnabled
                /\ ~rooms[handled.roomId][p.id].videoEnabled

\* C12: a chat-message sent by a member A of room r, naming r, is delivered
\* exactly once, with the same text, to every other member of r, and the
\* server does not deliver it to A.
C12_ChatDelivery ==
    (handled.type = "chat-message" /\ handled.socket \in Registered(rooms, handled.roomId))
       => /\ Len(emitted) = 1
          /\ emitted[1].ev = "chat-message"
          /\ OtherMembers(rooms, handled.roomId, handled.socket) \subseteq emitted[1].to
          /\ handled.socket \notin emitted[1].to
          /\ emitted[1].data.message = handled.message.message

\* C12 witness: a member's chat message reached another member of the room.
C12_Witness ==
    /\ handled.type = "chat-message"
    /\ handled.socket \in Registered(rooms, handled.roomId)
    /\ OtherMembers(rooms, handled.roomId, handled.socket) # {}
    /\ emitted[1].to = OtherMembers(rooms, handled.roomId, handled.socket)
    /\ emitted[1].data.message = "yo"

\* C13: every chat-message delivered to a client carries the sending
\* participant's connection id as senderId and its display name as senderName.
C13_ChatSenderAnnotated ==
    handled.type = "chat-message"
       => \A i \in 1..Len(emitted) :
             /\ emitted[i].data.senderId = handled.socket
             /\ emitted[i].data.senderName = sockUserName[handled.socket]

\* C15: a leave-room or disconnect from a connection that is in no room (it
\* never joined, or it has left through leave-room) changes no registry state
\* and delivers user-left to nobody.
C15_DepartureOutsideRoomIsNoOp ==
    [][((Dispatched("leave-room") \/ Dispatched("disconnect"))
          /\ joined[handled'.socket] = None)
          => /\ rooms' = rooms
             /\ Recipients(emitted', "user-left") = {}]_vars

\* ---- claims about the session
\* client c handles, in this step, the oldest message of its inbox, an `ev`
Handles(c, ev) ==
    /\ inbox[c] # << >>
    /\ Head(inbox[c]).ev = ev
    /\ inbox'[c] = Tail(inbox[c])
    /\ c \in connected'
\* the RTCPeerConnection client c holds for participant x
LinkOf(c, x) == pcHeap[c][peerConnections[c][x]]
\* the ids in a participants list
IdsOf(ps) == {ps[i].id : i \in 1..Len(ps)}

\* C14: when the transport of a participant B of room r closes without a
\* leave-room from B while another participant A is in r, B's registry entry
\* is removed, user-left{B} is delivered to A, r still exists and contains A;
\* and when A handles user-left{B}, its link to B is closed and removed from
\* the link map, and B is removed from A's participants list.
C14_AbruptDisconnect ==
    [][/\ (handled'.type = "disconnect" /\ closed' # closed
            /\ joined[handled'.socket] # None)
          => LET b == handled'.socket
                 r == joined[b]
             IN  /\ b \notin Registered(rooms', r)
                 /\ \A a \in connected' :
                       joined[a] = r
                         => /\ a \in emitted'[1].to
                            /\ emitted'[1].ev = "user-left"
                            /\ emitted'[1].data = b
                            /\ inbox'[a] = Append(inbox[a], [ev |-> "user-left", data |-> b])
                            /\ a \in Registered(rooms', r)
       /\ \A a \in Sockets :
             Handles(a, "user-left")
               => LET b == Head(inbox[a]).data
                  IN  /\ ~MapHas(peerConnections'[a], b)
                      /\ b \notin IdsOf(cParticipants'[a])
                      /\ MapHas(peerConnections[a], b)
                           => pcHeap'[a][peerConnections[a][b]].signalingState = "closed"]_vars

\* C14 witness: B's transport closed while B was in the room (B never called
\* leaveRoom), A is still registered, and A, having handled user-left{B},
\* holds a closed link object for B that is no longer in its map.
C14_Witness ==
    \E a \in connected, b \in closed :
       /\ cRoomId[b] # None
       /\ a \in Registered(rooms, cRoomId[b])
       /\ b \notin Registered(rooms, cRoomId[b])
       /\ inbox[a] = << >>
       /\ ~MapHas(peerConnections[a], b)
       /\ \E i \in DOMAIN pcHeap[a] :
             pcHeap[a][i].remote = b /\ pcHeap[a][i].signalingState = "closed"

\* C16: two participants of a room never both have an outstanding offer toward
\* each other: their links to each other are never both in have-local-offer.
C16_NoMutualOffer ==
    \A a \in connected, b \in connected :
       (a # b /\ MapHas(peerConnections[a], b) /\ MapHas(peerConnections[b], a)
              /\ cRoomId[a] # None /\ cRoomId[a] = cRoomId[b])
         => ~(/\ LinkOf(a, b).signalingState = "have-local-offer"
              /\ LinkOf(b, a).signalingState = "have-local-offer")

\* client c emits, in this step, a message of the given type
Emits(c, type) ==
    /\ Len(outbox'[c]) = Len(outbox[c]) + 1
    /\ outbox'[c][Len(outbox'[c])].type = type
\* the message client c emits in this step
Emitted(c) == outbox'[c][Len(outbox'[c])]
\* the link objects client c creates in this step
Created(c) == DOMAIN pcHeap'[c] \ DOMAIN pcHeap[c]
\* the link object on which client c sets a local offer in this step
Offering(c) ==
    {i \in DOMAIN pcHeap[c] :
        /\ pcHeap[c][i].remote = Emitted(c).target
        /\ pcHeap'[c][i].signalingState = "have-local-offer"
        /\ \E t \in BagToSet(tasks[c]) : t.kind = "offer" /\ t.pc = i}

\* C17: a client handling existing-participants creates a link for a listed
\* participant and starts originating an offer to it; a client handling
\* user-joined creates a link and starts no offer; and a link created through
\* user-joined sends no offer before it has received one (it is never in
\* have-local-offer without a remote description).
C17_OriginationRoles ==
    [][\A c \in Sockets :
          /\ (Handles(c, "existing-participants") /\ Head(inbox[c]).data # {})
               => \E i \in Created(c) :
                     /\ pcHeap'[c][i].remote \in {p.id : p \in Head(inbox[c]).data}
                     /\ peerConnections'[c][pcHeap'[c][i].remote] = i
                     /\ BagIn(OfferTask(i, pcHeap'[c][i].remote,
                                        {p \in Head(inbox[c]).data : p.id # pcHeap'[c][i].remote}),
                              tasks'[c])
          /\ Handles(c, "user-joined")
               => /\ \E i \in Created(c) :
                        /\ pcHeap'[c][i].remote = Head(inbox[c]).data.id
                        /\ peerConnections'[c][pcHeap'[c][i].remote] = i
                  /\ tasks'[c] = tasks[c]
                  /\ outbox'[c] = outbox[c]
          /\ \A i \in DOMAIN pcHeap'[c] :
                (~pcHeap'[c][i].shouldCreateOffer
                   /\ pcHeap'[c][i].signalingState = "have-local-offer")
                  => pcHeap'[c][i].hasRemote]_vars

\* C18 (as stated): when B joins a room that holds A, the initial offer of
\* their session is sent by A, the existing member, to B: an offer sent
\* before any source switch is sent on a link its sender created on hearing
\* user-joined.
C18_ExistingMemberOriginates ==
    [][\A c \in Sockets :
          (Emits(c, "offer") /\ actionCount = 0)
            => \E i \in Offering(c) : ~pcHeap[c][i].shouldCreateOffer]_vars

\* C18 (amended): when B joins a room that holds A, the initial offer of
\* their session is sent by B, the joiner, to A: an offer sent before any
\* source switch is sent on a link its sender created for a participant
\* listed in existing-participants, and is its first description; handling
\* user-joined sends no offer and starts none.
C18_JoinerOriginates ==
    [][\A c \in Sockets :
          /\ (Emits(c, "offer") /\ actionCount = 0)
               => \E i \in Offering(c) :
                     /\ pcHeap[c][i].shouldCreateOffer
                     /\ ~pcHeap[c][i].hasRemote
                     /\ Emitted(c) = [type |-> "offer", target |-> pcHeap[c][i].remote,
                                      offer |-> Sdp]
          /\ Handles(c, "user-joined")
               => /\ tasks'[c] = tasks[c]
                  /\ outbox'[c] = outbox[c]
                  /\ \A i \in Created(c) : ~pcHeap'[c][i].shouldCreateOffer]_vars

\* C18 witness: A was alone, B joined; B, told of A by existing-participants,
\* has sent the offer; A, told of B by user-joined, has applied it and
\* answered, and B has applied the answer.
C18_Witness ==
    /\ actionCount = 0
    /\ MapHas(peerConnections["s1"], "s2")
    /\ MapHas(peerConnections["s2"], "s1")
    /\ LinkOf("s1", "s2").signalingState = "stable"
    /\ ~LinkOf("s1", "s2").shouldCreateOffer
    /\ LinkOf("s1", "s2").hasRemote
    /\ LinkOf("s2", "s1").signalingState = "stable"
    /\ LinkOf("s2", "s1").shouldCreateOffer
    /\ LinkOf("s2", "s1").hasRemote

\* the sender of the message client c is about to handle
Sender(c) == Head(inbox[c]).data.sender

\* C19: a client that receives an offer from a sender for which it holds no
\* link (both being registered in the client's room) creates a link for that
\* sender, applies the offer to it and goes on to answer; and an answer is only ever sent by a
\* continuation of handleOffer, on a link that holds the sender's offer as
\* remote description, to that link's participant.
C19_OfferWithoutLink ==
    [][\A c \in Sockets :
          /\ (Handles(c, "offer") /\ cRoomId[c] # None
                /\ {c, Sender(c)} \subseteq Registered(rooms, cRoomId[c])
                /\ ~MapHas(peerConnections[c], Sender(c)))
               => /\ MapHas(peerConnections'[c], Sender(c))
                  /\ \E i \in Created(c) :
                        /\ peerConnections'[c][Sender(c)] = i
                        /\ pcHeap'[c][i].hasRemote
                        /\ BagIn(AnswerTask(i, Sender(c)), tasks'[c])
          /\ Emits(c, "answer")
               => \E t \in BagToSet(tasks[c]) :
                     /\ t.kind = "answer"
                     /\ tasks'[c] = Resume(tasks[c], t)
                     /\ Emitted(c).target = t.target
                     /\ pcHeap[c][t.pc].remote = t.target
                     /\ pcHeap[c][t.pc].signalingState = "have-remote-offer"
                     /\ pcHeap[c][t.pc].hasRemote]_vars

\* the link of client c to x exists and has a local offer pending
AwaitingAnswer(c, x) ==
    MapHas(peerConnections[c], x) /\ LinkOf(c, x).signalingState = "have-local-offer"

\* C20: handling an answer changes no link but the one the client holds for
\* the sender, and that one only if it is awaiting an answer (it then becomes
\* stable with the answer as remote description); an answer for an unknown
\* sender, a closed link or a link that is not awaiting one changes nothing.
C20_AnswerOnlyWhenAwaiting ==
    [][\A c \in Sockets :
          Handles(c, "answer")
            => /\ peerConnections'[c] = peerConnections[c]
               /\ DOMAIN pcHeap'[c] = DOMAIN pcHeap[c]
               /\ \A i \in DOMAIN pcHeap[c] :
                     pcHeap'[c][i] # pcHeap[c][i]
                       => AwaitingAnswer(c, Sender(c)) /\ i = peerConnections[c][Sender(c)]
               /\ AwaitingAnswer(c, Sender(c))
                    => pcHeap'[c][peerConnections[c][Sender(c)]] =
                          [LinkOf(c, Sender(c)) EXCEPT !.signalingState = "stable",
                                                       !.hasRemote = TRUE]]_vars

\* C20 witness: a link that sent the initial offer has had the answer applied
\* (no offer was ever sent toward it, so its remote description is the answer).
C20_Witness ==
    /\ actionCount = 0
    /\ \E c \in connected : \E x \in DOMAIN peerConnections[c] :
          /\ LinkOf(c, x).shouldCreateOffer
          /\ LinkOf(c, x).signalingState = "stable"
          /\ LinkOf(c, x).hasRemote
          /\ inbox[c] = << >>

\* ---- claims about a call
\* C21: a candidate that arrives for a link before the link's remote
\* description is set is not lost (it is held and applied once the description
\* is applied): no open link has had a candidate rejected and dropped.
C21_NoCandidateLost ==
    \A c \in Sockets : \A i \in DOMAIN pcHeap[c] : pcHeap[c][i].lost = 0

\* C22: when a client handles user-left for participant X, its link to X,
\* whatever state it is in (new, offer sent, connected, failed), is closed and
\* removed from the link map, X is removed from the participants list and no
\* other link changes; user-left for an X the client neither lists nor holds a
\* link for changes nothing of the client but the queue it was taken from.
C22_UserLeftClosesLink ==
    [][\A c \in Sockets :
          Handles(c, "user-left")
            => LET x == Head(inbox[c]).data
                   known == MapHas(peerConnections[c], x)
               IN  /\ ~MapHas(peerConnections'[c], x)
                   /\ x \notin IdsOf(cParticipants'[c])
                   /\ cParticipants'[c] = RemoveParticipant(cParticipants[c], x)
                   /\ DOMAIN pcHeap'[c] = DOMAIN pcHeap[c]
                   /\ \A i \in DOMAIN pcHeap[c] :
                         pcHeap'[c][i] =
                            IF known /\ i = peerConnections[c][x]
                               THEN [pcHeap[c][i] EXCEPT !.signalingState = "closed",
                                                         !.connectionState = "closed"]
                               ELSE pcHeap[c][i]
                   /\ \A k \in DOMAIN peerConnections[c] \ {x} :
                         /\ MapHas(peerConnections'[c], k)
                         /\ peerConnections'[c][k] = peerConnections[c][k]
                   /\ (~known /\ x \notin IdsOf(cParticipants[c]))
                        => /\ cParticipants'[c] = cParticipants[c]
                           /\ peerConnections'[c] = peerConnections[c]
                           /\ pcHeap'[c] = pcHeap[c]
                           /\ tasks'[c] = tasks[c]
                           /\ outbox'[c] = outbox[c]
                           /\ cRoomId'[c] = cRoomId[c]]_vars

\* C22 witness: a client that has handled user-left holds, outside its map, the
\* closed object of a link that had failed, and no longer lists its participant.
C22_Witness ==
    \E c \in connected : \E i \in DOMAIN pcHeap[c] :
       /\ pcHeap[c][i].connectionState = "closed"
       /\ pcHeap[c][i].signalingState = "closed"
       /\ pcHeap[c][i].restarts > 0
       /\ pcHeap[c][i].remote \in closed
       /\ ~MapHas(peerConnections[c], pcHeap[c][i].remote)
       /\ pcHeap[c][i].remote \notin IdsOf(cParticipants[c])
       /\ cRoomId[c] # None
       /\ inbox[c] = << >>

\* C22 witness of the no-op: a client that has left the room (its map and its
\* list are empty) has handled the user-left of a participant that went away.
C22_WitnessUnknown ==
    \E c \in connected, x \in closed :
       /\ cRoomId[c] = None
       /\ mediaInitialized[c]
       /\ joined[c] # None
       /\ handled = [type |-> "disconnect", socket |-> x]
       /\ inbox[c] = << >>
       /\ emitted # << >>
       /\ c \in emitted[1].to

\* participant record p shows a connection issue
Degraded(p) == "connectionState" \in DOMAIN p /\ p.connectionState = "failed"

\* C23: a link whose connection has failed has had exactly one ICE restart
\* attempted, however often it failed; and a link that has failed again and is
\* still failed has this recorded on the participant it leads to; the link is
\* still open and still in the link map.
C23_OneRestartThenFailed ==
    \A c \in Sockets : \A i \in DOMAIN pcHeap[c] :
       LET pc == pcHeap[c][i]
       IN  /\ pc.failures >= 1 => pc.restarts = 1
           /\ (pc.failures >= 2 /\ pc.connectionState = "failed")
                => /\ pc.signalingState # "closed"
                   /\ MapHas(peerConnections[c], pc.remote)
                   /\ peerConnections[c][pc.remote] = i
                   /\ \E k \in 1..Len(cParticipants[c]) :
                         /\ cParticipants[c][k].id = pc.remote
                         /\ Degraded(cParticipants[c][k])

\* the local stream of client c has changed and the effect on it has yet to run
EffectPending(c) == BagIn(EffectTask, tasks[c])

\* C24: the links of a client carry the tracks of its active source and of no
\* other: once a switch is complete (no effect on the local stream is pending),
\* every link in the map, created before or after the switch, carries the
\* tracks of the current local stream.
C24_LinksCarryActiveSource ==
    \A c \in Sockets :
       ~EffectPending(c)
         => \A k \in DOMAIN peerConnections[c] : LinkOf(c, k).tracks = localStreamRef[c]

\* C24 witness: a party that switched to the screen and back (it has acquired
\* the camera a second time) holds, the switch being complete, an open link
\* that carries the camera.
C24_Witness ==
    \E c \in connected :
       /\ localStreamRef[c] = "camera"
       /\ ~isScreenSharing[c]
       /\ CopiesIn("camera", liveTracks[c]) = 2
       /\ ~EffectPending(c)
       /\ \E k \in DOMAIN peerConnections[c] :
             /\ LinkOf(c, k).tracks = "camera"
             /\ LinkOf(c, k).connectionState # "closed"
             /\ LinkOf(c, k).hasLocal

\* a createAndSendOffer call for link object i of client c is in progress
OfferPending(c, i) == \E t \in BagToSet(tasks[c]) : t.kind = "offer" /\ t.pc = i

\* C25: a source switch acquires the new stream and then, on every link in
\* the map, replaces the tracks sent by those of the new stream and sends a
\* fresh offer to the link's participant: a link in the map whose tracks were
\* replaced carries the current stream's tracks and either has made an offer
\* since or is about to (its createAndSendOffer is in progress, or the effect
\* that starts one is pending).
C25_SwitchRenegotiates ==
    \A c \in Sockets : \A k \in DOMAIN peerConnections[c] :
       LinkOf(c, k).tracksReplaced
         => /\ localStreamRef[c] # None
            /\ LinkOf(c, k).tracks = localStreamRef[c] \/ EffectPending(c)
            /\ OfferPending(c, peerConnections[c][k]) \/ EffectPending(c)

\* the call of initializeMedia that task t of client c awaits returns in this
\* step, with a stream
Returns(c, t) ==
    /\ c \notin closed'
    /\ BagIn(t, tasks[c])
    /\ CopiesIn(t, tasks'[c]) = CopiesIn(t, tasks[c]) - 1
    /\ alerts'[c] = alerts[c]

\* C26: when the screen track ends while the client is sharing its screen, the
\* client acquires the camera again: when the onended handler of a client that
\* is still in its room returns from initializeMedia with a stream, the local
\* stream is the camera and the screen-sharing flag is false.
C26_CaptureEndBackToCamera ==
    [][\A c \in Sockets :
          (cRoomId[c] # None /\ Returns(c, MediaTask("ended", TRUE)))
            => /\ localStreamRef'[c] = "camera"
               /\ ~isScreenSharing'[c]]_vars

\* The step in which client c leaves its room.
Leaving(c) == cRoomId[c] # None /\ cRoomId'[c] = None

\* C27: after leaveRoom every link of the client is closed and the link map is
\* empty, every local capture track acquired in the session (camera and screen)
\* is stopped, and the room id, the participants and the chat are reset.
C27_LeaveReleasesEverything ==
    [][\A c \in Sockets :
          Leaving(c)
            => /\ peerConnections'[c] = EmptyMap
               /\ \A k \in DOMAIN peerConnections[c] :
                     pcHeap'[c][peerConnections[c][k]].connectionState = "closed"
               /\ liveTracks'[c] = EmptyBag
               /\ cParticipants'[c] = << >>
               /\ cChatMessages'[c] = << >>]_vars

\* The step in which a call of initializeMedia by client c settles: the one made
\* by the room page before joinRoom, or the one a shareScreen / onended handler
\* was suspended in.
InitializeMediaSettles(c) ==
    \/ ~mediaInitialized[c] /\ mediaInitialized'[c]
    \/ \E t \in BagToSet(tasks[c]) :
          t.kind = "media" /\ CopiesIn(t, tasks'[c]) < CopiesIn(t, tasks[c])

\* C28: initializeMedia issues the preferred request first, the fallback request
\* if and only if the preferred one was rejected, sets the local stream to the
\* stream of whichever request succeeded, and raises the user-facing error,
\* leaving the stream unchanged, if and only if both were rejected.
C28_PreferredThenFallback ==
    [][\A c \in Sockets :
          InitializeMediaSettles(c)
            => LET rq == mediaRequests'[c]
                   ok == \E i \in DOMAIN rq : rq[i].ok
               IN  /\ Len(rq) \in {1, 2}
                   /\ rq[1].constraints = "preferred"
                   /\ Len(rq) = 2 <=> ~rq[1].ok
                   /\ Len(rq) = 2 => rq[2].constraints = "fallback"
                   /\ ok => localStreamRef'[c] = "camera" /\ alerts'[c] = alerts[c]
                   /\ ~ok => /\ localStreamRef'[c] = localStreamRef[c]
                             /\ alerts'[c] = alerts[c] + 1]_vars

\* A client whose return from screen sharing had both requests rejected: the
\* error was raised and the screen stream is still the local one.
C28_Witness ==
    \E c \in Sockets :
       /\ Len(mediaRequests[c]) = 2
       /\ \A i \in DOMAIN mediaRequests[c] : ~mediaRequests[c][i].ok
       /\ alerts[c] > 0
       /\ localStreamRef[c] = "screen"
       /\ ~isScreenSharing[c]

\* The step in which messages disappear from the transcript of client c.
TranscriptShrinks(c) == Len(cChatMessages'[c]) < Len(cChatMessages[c])

\* C29: deleting a chat message on one client removes it from that client's
\* transcript only: the step emits nothing to the server, delivers nothing, and
\* leaves every other client's transcript as it was.
C29_DeleteIsLocal ==
    [][\A c \in Sockets :
          TranscriptShrinks(c)
            => /\ \E id \in MessageIds :
                     cChatMessages'[c] = DeleteChatMessage(cChatMessages[c], id)
               /\ outbox' = outbox
               /\ inbox' = inbox
               /\ UNCHANGED serverVars
               /\ \A d \in Sockets \ {c} : cChatMessages'[d] = cChatMessages[d]]_vars

\* Two clients of one room, nothing in flight, after one message was sent and
\* one deleted: the transcript of one is empty, the other still shows the message.
C29_Witness ==
    \E c \in CallParties, d \in CallParties :
       /\ c # d
       /\ cRoomId[c] # None /\ cRoomId[d] = cRoomId[c]
       /\ actionCount = 2
       /\ cChatMessages[c] = << >>
       /\ Len(cChatMessages[d]) = 1
       /\ \A x \in Sockets : outbox[x] = << >> /\ inbox[x] = << >>

\* Client s is connected and holds a room id, is not registered in that room on
\* the server, and has no join-room on its way.
Unregistered(s) ==
    /\ s \in connected
    /\ cRoomId[s] # None
    /\ s \notin Registered(rooms, cRoomId[s])
    /\ \A i \in DOMAIN outbox[s] : outbox[s][i].type # "join-room"

\* C30: after an unexpected transport disconnect the server holds no membership
\* for the client, and a client whose reconnection succeeded sends join-room
\* again, so that it is eventually a registered member of its room again.
C30_RejoinsAfterReconnect ==
    \A s \in Sockets :
       Unregistered(s) ~> (s \in Registered(rooms, cRoomId[s]))

\* ---- claims about malformed input, the lists and the flags of a client
\* C31: a join-room whose roomId is missing or empty is a no-op: it creates no
\* room, registers no participant and emits neither existing-participants nor
\* user-joined.
C31_MalformedJoinIsNoOp ==
    [][(Dispatched("join-room") /\ ~Truthy(handled'.roomId))
          => /\ rooms' = rooms
             /\ EmissionsOf(emitted', "existing-participants") = {}
             /\ EmissionsOf(emitted', "user-joined") = {}]_vars

UserLeftHandled(c, x) ==
    /\ x \in closed
    /\ \A i \in DOMAIN inbox[c] : ~(inbox[c][i].ev = "user-left" /\ inbox[c][i].data = x)

\* C33: once a client has processed user-left for participant X, and no later
\* user-joined or existing-participants names X, it holds neither a participants
\* entry nor a peer link for X, also when the user-left was processed while the
\* existing-participants loop was awaiting an earlier participant's offer.
C33_LeftStaysLeft ==
    \A c \in connected, x \in Sockets :
       UserLeftHandled(c, x)
          => /\ x \notin IdsOf(cParticipants[c])
             /\ ~MapHas(peerConnections[c], x)

\* client c has joined a room and has run leaveRoom since
HasLeft(c) == mediaInitialized[c] /\ cRoomId[c] = None

\* C34: after leaveRoom has run, the client's peer-link map and participants
\* list stay empty, whatever was in flight or in progress when it ran.
C34_EmptyAfterLeave ==
    \A c \in Sockets :
       HasLeft(c) => /\ cParticipants[c] = << >>
                     /\ peerConnections[c] = EmptyMap

\* clients c and d are registered in the same room
SameRoom(c, d) == \E r \in DOMAIN rooms : c \in DOMAIN rooms[r] /\ d \in DOMAIN rooms[r]
\* the offer/answer exchange is complete at c for its link to d
Negotiated(c, d) ==
    /\ MapHas(peerConnections[c], d)
    /\ LinkOf(c, d).hasLocal
    /\ LinkOf(c, d).hasRemote
    /\ LinkOf(c, d).signalingState = "stable"

\* C35: with relayed messages eventually delivered and no leaves, disconnects or
\* source switches, the offer/answer exchange between any two members of one
\* room eventually completes: both ends hold a link for the other with a local
\* and a remote description set and no outstanding offer.
C35_HandshakeCompletes ==
    \A c \in Sockets : \A d \in Sockets \ {c} :
       SameRoom(c, d) ~> (Negotiated(c, d) /\ Negotiated(d, c))

\* Two members of one room, both ends negotiated, nothing left in flight.
C35_Witness ==
    \E c \in Sockets : \E d \in Sockets \ {c} :
       /\ SameRoom(c, d)
       /\ Negotiated(c, d) /\ Negotiated(d, c)
       /\ \A x \in Sockets : inbox[x] = << >> /\ outbox[x] = << >>

\* nothing is in flight between the clients and the server
Quiescent == \A x \in Sockets : outbox[x] = << >> /\ inbox[x] = << >>

\* C36: once all in-flight messages are delivered, the audioEnabled and
\* videoEnabled flags the registry holds for a participant, and those the other
\* clients show for it, equal the participant's own isAudioEnabled and
\* isVideoEnabled.
C36_FlagsAgree ==
    Quiescent
      => \A c \in connected :
            /\ \A r \in DOMAIN rooms :
                  MapHas(rooms[r], c)
                    => /\ rooms[r][c].audioEnabled = isAudioEnabled[c]
                       /\ rooms[r][c].videoEnabled = isVideoEnabled[c]
            /\ \A d \in connected : \A i \in DOMAIN cParticipants[d] :
                  cParticipants[d][i].id = c
                    => /\ cParticipants[d][i].audioEnabled = isAudioEnabled[c]
                       /\ cParticipants[d][i].videoEnabled = isVideoEnabled[c]

\* C37: in every client state with a local stream, the enabled flag of its audio
\* tracks equals isAudioEnabled and that of its video tracks equals
\* isVideoEnabled, also after the stream was replaced by a source switch or a
\* re-acquisition while muted.
C37_TracksFollowFlags ==
    \A c \in Sockets :
       localStreamRef[c] # None
          => /\ trackEnabled[c].audio = isAudioEnabled[c]
             /\ trackEnabled[c].video = isVideoEnabled[c]

\* C38: in every client state isScreenSharing is true exactly when the active
\* local stream is a screen capture.
C38_FlagIsSource ==
    \A c \in Sockets : isScreenSharing[c] <=> localStreamRef[c] = "screen"

\* The step in which a request of MediaParty to start a screen share is
\* rejected: a user action of a client that is not sharing, other than leaving
\* (the room id stays) and other than a granted request (no capture starts).
ShareRejected(c) ==
    /\ actionCount' = actionCount + 1
    /\ mediaInitialized[c]
    /\ ~isScreenSharing[c]
    /\ cRoomId'[c] = cRoomId[c]
    /\ liveTracks'[c] = liveTracks[c]

\* C39: when starting a screen share fails, the client state is unchanged: the
\* local stream, isScreenSharing and the tracks of every peer link stay as they
\* were, and no offer is started or sent.
C39_RejectedShareChangesNothing ==
    [][ShareRejected(MediaParty)
          => /\ localStreamRef'[MediaParty] = localStreamRef[MediaParty]
             /\ isScreenSharing'[MediaParty] = isScreenSharing[MediaParty]
             /\ pcHeap'[MediaParty] = pcHeap[MediaParty]
             /\ peerConnections'[MediaParty] = peerConnections[MediaParty]
             /\ tasks'[MediaParty] = tasks[MediaParty]
             /\ outbox'[MediaParty] = outbox[MediaParty]]_vars

\* MediaParty, in its room on the camera with a negotiated link carrying the
\* camera tracks, after its one user action, a rejected request to share.
C39_Witness ==
    /\ actionCount = 1
    /\ cRoomId[MediaParty] # None
    /\ ~isScreenSharing[MediaParty]
    /\ localStreamRef[MediaParty] = "camera"
    /\ liveTracks[MediaParty] = SetToBag({"camera"})
    /\ \E x \in DOMAIN peerConnections[MediaParty] :
          /\ LinkOf(MediaParty, x).tracks = "camera"
          /\ LinkOf(MediaParty, x).signalingState = "stable"
          /\ LinkOf(MediaParty, x).hasRemote

\* C40: message ids are unique within any client's chat transcript: two entries
\* of one transcript never share an id, so deleteChatMessage(id) removes exactly
\* one message.
C40_UniqueMessageIds ==
    \A c \in Sockets :
       \A i \in DOMAIN cChatMessages[c], j \in DOMAIN cChatMessages[c] :
          cChatMessages[c][i].id = cChatMessages[c][j].id => i = j
====
